---- MODULE Spec2Model ----
(***************************************************************************)
(* FNOL agent: field extraction (src/src/field_extractor.py), the          *)
(* missing-field detector and the routing decision engine                  *)
(* (src/src/routing_engine.py), with the configuration of                  *)
(* src/src/config.py.                                                      *)
(*                                                                         *)
(* Python values are tagged records: Str(s) is a str, Num(n) a float.      *)
(* A float is held as an integer number of hundredths, so 8200.0 is        *)
(* Num(820000) and the 25000.0 threshold is 25000 * 100.                   *)
(* A dict is a function whose DOMAIN is its key set.  Strings are TLA+     *)
(* strings, read character by character with Len and SubSeq.               *)
(* The variable result holds what a function called on its own returned,   *)
(* and the result dict of process_document once a call has built it;       *)
(* status and validation are the entries of process_document's result.     *)
(* stats is self.stats of the agent, calls the number of process_document  *)
(* calls made, paths the file_paths of process_batch and batch_results     *)
(* its results list.                                                       *)
(***************************************************************************)
EXTENDS Integers, Sequences, FiniteSets, TLC

VARIABLES pc, text, fields, missing, route, reasoning, result, status, validation,
          stats, calls, paths, batch_results

vars == <<pc, text, fields, missing, route, reasoning, result, status, validation,
          stats, calls, paths, batch_results>>

\* what one step of a call before its last leaves alone: the statistics of the
\* agent, the number of calls made, the paths of the batch and its results
agent == <<stats, calls, paths, batch_results>>

-----------------------------------------------------------------------------
(* Python values *)

Str(s) == [k |-> "str", v |-> s]

Num(n) == [k |-> "num", v |-> n]

None == [k |-> "none", v |-> "None"]

\* bool(v): the truth value Python gives a str, a float or None
Truthy(val) ==
    CASE val.k = "str" -> val.v # ""
      [] val.k = "num" -> val.v # 0
      [] OTHER -> FALSE

\* dict.get(key, default)
Get(d, key, default) == IF key \in DOMAIN d THEN d[key] ELSE default

\* d[key] = val on a dict
Put(d, key, val) == (key :> val) @@ d

EmptyDict == [x \in {} |-> None]

-----------------------------------------------------------------------------
(* str operations *)

UPPER == "ABCDEFGHIJKLMNOPQRSTUVWXYZ"

LOWER == "abcdefghijklmnopqrstuvwxyz"

DIGITS == "0123456789"

Chr(s, i) == SubSeq(s, i, i)

CharsOf(s) == {Chr(s, i) : i \in 1..Len(s)}

LowerOf == [c \in CharsOf(UPPER) |->
              Chr(LOWER, CHOOSE i \in 1..26 : Chr(UPPER, i) = c)]

LowerChar(c) == IF c \in DOMAIN LowerOf THEN LowerOf[c] ELSE c

\* str.lower(), the two halves of s folded apart
RECURSIVE StrLower(_)
StrLower(s) ==
    IF Len(s) <= 1 THEN (IF s = "" THEN "" ELSE LowerChar(s))
    ELSE StrLower(SubSeq(s, 1, Len(s) \div 2)) \o StrLower(SubSeq(s, Len(s) \div 2 + 1, Len(s)))

UpperOf == [c \in CharsOf(LOWER) |->
              Chr(UPPER, CHOOSE i \in 1..26 : Chr(LOWER, i) = c)]

UpperChar(c) == IF c \in DOMAIN UpperOf THEN UpperOf[c] ELSE c

\* str.upper()
RECURSIVE StrUpper(_)
StrUpper(s) ==
    IF Len(s) <= 1 THEN (IF s = "" THEN "" ELSE UpperChar(s))
    ELSE StrUpper(SubSeq(s, 1, Len(s) \div 2)) \o StrUpper(SubSeq(s, Len(s) \div 2 + 1, Len(s)))

\* s[i:i+len(k)] == k
StartsAt(s, i, k) == i + Len(k) - 1 <= Len(s) /\ SubSeq(s, i, i + Len(k) - 1) = k

\* k in s, for a non-empty k
Contains(s, k) == \E i \in 1..Len(s) : StartsAt(s, i, k)

\* s.count(k): non-overlapping occurrences, scanning from the left
RECURSIVE CountFrom(_, _, _)
CountFrom(s, k, i) ==
    IF i + Len(k) - 1 > Len(s) THEN 0
    ELSE IF StartsAt(s, i, k) THEN 1 + CountFrom(s, k, i + Len(k))
    ELSE CountFrom(s, k, i + 1)

StrCount(s, k) == CountFrom(s, k, 1)

\* sep.join(parts)
RECURSIVE Join(_, _)
Join(sep, parts) ==
    IF parts = <<>> THEN ""
    ELSE IF Len(parts) = 1 THEN parts[1]
    ELSE parts[1] \o sep \o Join(sep, Tail(parts))

\* ''.join(parts), the two halves of the list joined apart
RECURSIVE ConcatRange(_, _, _)
ConcatRange(parts, lo, hi) ==
    IF lo > hi THEN ""
    ELSE IF lo = hi THEN parts[lo]
    ELSE ConcatRange(parts, lo, (lo + hi) \div 2)
         \o ConcatRange(parts, (lo + hi) \div 2 + 1, hi)

Concat(parts) == ConcatRange(parts, 1, Len(parts))

\* str.replace(old, new), for an old that cannot overlap itself (no proper prefix
\* of it is also its suffix): every occurrence is replaced
StrReplace(s, old, new) ==
    Concat([i \in 1..Len(s) |->
               IF StartsAt(s, i, old) THEN new
               ELSE IF \E j \in (i - Len(old) + 1)..(i - 1) : j >= 1 /\ StartsAt(s, j, old)
               THEN ""
               ELSE Chr(s, i)])

\* the characters of s that belong to the set, in order
KeepChars(s, set) == Concat([i \in 1..Len(s) |-> IF Chr(s, i) \in set THEN Chr(s, i) ELSE ""])

\* list[:n]
Take(list, n) == SubSeq(list, 1, IF Len(list) < n THEN Len(list) ELSE n)

\* format(n, "d") for a natural number
RECURSIVE NatStr(_)
NatStr(n) == IF n < 10 THEN Chr(DIGITS, n + 1)
             ELSE NatStr(n \div 10) \o Chr(DIGITS, (n % 10) + 1)

\* the three digits of a thousands group
Pad3(n) == Chr(DIGITS, (n \div 100) + 1) \o Chr(DIGITS, ((n \div 10) % 10) + 1)
           \o Chr(DIGITS, (n % 10) + 1)

\* format(n, ",d") for a natural number
RECURSIVE Grouped(_)
Grouped(n) == IF n < 1000 THEN NatStr(n)
              ELSE Grouped(n \div 1000) \o "," \o Pad3(n % 1000)

\* f"{x:,.2f}" for a non-negative float held in hundredths
Fmt2f(h) == Grouped(h \div 100) \o "." \o Chr(DIGITS, ((h \div 10) % 10) + 1)
            \o Chr(DIGITS, (h % 10) + 1)

\* f"{x:,.0f}" for a non-negative float held in hundredths (round half to even)
Fmt0f(h) ==
    LET whole == h \div 100
        frac == h % 100
        up == frac > 50 \/ (frac = 50 /\ whole % 2 = 1)
    IN Grouped(IF up THEN whole + 1 ELSE whole)

-----------------------------------------------------------------------------
(* src/src/config.py *)

FAST_TRACK_THRESHOLD == 25000 * 100

FRAUD_KEYWORDS ==
    << "fraud", "fraudulent", "false", "fake", "staged", "setup",
       "inconsistent", "contradict", "lie", "lied", "lying",
       "misrepresent", "exaggerat", "inflated", "suspicious",
       "fabricated", "concocted", "scam", "scheme" >>

INJURY_KEYWORDS ==
    << "injury", "injured", "hurt", "pain", "hospital",
       "ambulance", "medical", "doctor", "fracture", "broken",
       "whiplash", "concussion", "bleeding", "wound", "laceration",
       "surgery", "therapy", "treatment", "paramedic", "emergency" >>

REQUIRED_FIELDS ==
    << "policy_number", "policyholder_name", "date_of_loss", "location",
       "description", "estimated_damage", "claim_type" >>

-----------------------------------------------------------------------------
(* src/src/routing_engine.py *)

\* the keywords of a configured list that occur in the description, in list order
RECURSIVE KeywordsFound(_, _)
KeywordsFound(keywords, description) ==
    IF keywords = <<>> THEN <<>>
    ELSE (IF Contains(description, Head(keywords)) THEN <<Head(keywords)>> ELSE <<>>)
         \o KeywordsFound(Tail(keywords), description)

AnyWord(description, words) == \E w \in words : Contains(description, w)

_check_additional_factors(extracted_fields) ==
    LET description == StrLower(Get(extracted_fields, "description", Str("")).v)
    IN (IF StrCount(description, "vehicle") > 1 \/ StrCount(description, "car") > 1
        THEN <<"Multiple vehicles involved">> ELSE <<>>)
       \o (IF Contains(description, "hit and run") \/ Contains(description, "hit & run")
           THEN <<"Hit-and-run incident">> ELSE <<>>)
       \o (IF AnyWord(description, {"commercial", "truck", "semi", "fleet", "business"})
           THEN <<"Commercial vehicle involved">> ELSE <<>>)
       \o (IF AnyWord(description, {"previous", "prior", "last claim", "before"})
           THEN <<"Reference to previous claims">> ELSE <<>>)

\* description = extracted_fields.get('description', '').lower()
Description(extracted_fields) == StrLower(Get(extracted_fields, "description", Str("")).v)

\* Rule 1: missing mandatory fields
CompletenessGate(missing_fields) ==
    [route |-> "Manual Review",
     reasoning |-> Join(". ", <<"Missing required fields: " \o Join(", ", missing_fields)>>)]

\* Rule 2: fraud indicators
FraudKeywordsFound(extracted_fields) ==
    KeywordsFound(FRAUD_KEYWORDS, Description(extracted_fields))

\* Rule 2 with the additional considerations appended
FraudGateWithFactors(extracted_fields) ==
    [route |-> "Investigation Flag",
     reasoning |-> Join(". ", <<"Fraud indicators detected: "
                                \o Join(", ", Take(FraudKeywordsFound(extracted_fields), 3))>>
                              \o _check_additional_factors(extracted_fields))]


FraudGate(extracted_fields) ==
    [route |-> "Investigation Flag",
     reasoning |-> Join(". ", <<"Fraud indicators detected: "
                                \o Join(", ", Take(FraudKeywordsFound(extracted_fields), 3))>>)]

\* Rule 3: injury claims
\* Rule 3 naming every keyword found
InjuryGateAllKeywords(extracted_fields) ==
    LET injury_keywords == KeywordsFound(INJURY_KEYWORDS, Description(extracted_fields))
    IN [route |-> "Specialist Queue",
        reasoning |-> Join(". ",
            IF injury_keywords # <<>>
            THEN <<"Injury claim with indicators: " \o Join(", ", injury_keywords)>>
            ELSE <<"Injury claim type identified">>)]


InjuryGate(extracted_fields) ==
    LET injury_keywords == KeywordsFound(INJURY_KEYWORDS, Description(extracted_fields))
    IN [route |-> "Specialist Queue",
        reasoning |-> Join(". ",
            IF injury_keywords # <<>>
            THEN <<"Injury claim with indicators: " \o Join(", ", Take(injury_keywords, 3))>>
            ELSE <<"Injury claim type identified">>)]

DamageGateInclusive(extracted_fields) ==
    LET damage == Get(extracted_fields, "estimated_damage", Num(0)).v
        amounts == "Estimated damage ($" \o Fmt2f(damage)
        threshold == Fmt0f(FAST_TRACK_THRESHOLD) \o " threshold"
        additional_reasons == _check_additional_factors(extracted_fields)
    IN IF damage > 0
       THEN IF damage <= FAST_TRACK_THRESHOLD
            THEN [route |-> "Fast-track",
                  reasoning |-> Join(". ", <<amounts \o ") is below $" \o threshold>>
                                           \o additional_reasons)]
            ELSE [route |-> "Standard Processing",
                  reasoning |-> Join(". ", <<amounts \o ") meets or exceeds $" \o threshold>>
                                           \o additional_reasons)]
       ELSE [route |-> "Manual Review",
             reasoning |-> Join(". ",
                 <<"Damage amount not specified or could not be extracted">>
                 \o additional_reasons)]

DamageGateNoFallback(extracted_fields) ==
    LET damage == Get(extracted_fields, "estimated_damage", Num(0)).v
        amounts == "Estimated damage ($" \o Fmt2f(damage)
        threshold == Fmt0f(FAST_TRACK_THRESHOLD) \o " threshold"
        additional_reasons == _check_additional_factors(extracted_fields)
    IN IF damage > 0
       THEN IF damage < FAST_TRACK_THRESHOLD
            THEN [route |-> "Fast-track",
                  reasoning |-> Join(". ", <<amounts \o ") is below $" \o threshold>>
                                           \o additional_reasons)]
            ELSE [route |-> "Standard Processing",
                  reasoning |-> Join(". ", <<amounts \o ") meets or exceeds $" \o threshold>>
                                           \o additional_reasons)]
       ELSE [route |-> "", reasoning |-> Join(". ", additional_reasons)]

DamageGateZeroIsAmount(extracted_fields) ==
    LET damage == Get(extracted_fields, "estimated_damage", Num(0)).v
        amounts == "Estimated damage ($" \o Fmt2f(damage)
        threshold == Fmt0f(FAST_TRACK_THRESHOLD) \o " threshold"
        additional_reasons == _check_additional_factors(extracted_fields)
    IN IF damage >= 0
       THEN IF damage < FAST_TRACK_THRESHOLD
            THEN [route |-> "Fast-track",
                  reasoning |-> Join(". ", <<amounts \o ") is below $" \o threshold>>
                                           \o additional_reasons)]
            ELSE [route |-> "Standard Processing",
                  reasoning |-> Join(". ", <<amounts \o ") meets or exceeds $" \o threshold>>
                                           \o additional_reasons)]
       ELSE [route |-> "Manual Review",
             reasoning |-> Join(". ",
                 <<"Damage amount not specified or could not be extracted">>
                 \o additional_reasons)]


\* Rule 4: damage amount against the fast-track threshold, then the additional
\* considerations
DamageGate(extracted_fields) ==
    LET damage == Get(extracted_fields, "estimated_damage", Num(0)).v
        amounts == "Estimated damage ($" \o Fmt2f(damage)
        threshold == Fmt0f(FAST_TRACK_THRESHOLD) \o " threshold"
        additional_reasons == _check_additional_factors(extracted_fields)
    IN IF damage > 0
       THEN IF damage < FAST_TRACK_THRESHOLD
            THEN [route |-> "Fast-track",
                  reasoning |-> Join(". ", <<amounts \o ") is below $" \o threshold>>
                                           \o additional_reasons)]
            ELSE [route |-> "Standard Processing",
                  reasoning |-> Join(". ", <<amounts \o ") meets or exceeds $" \o threshold>>
                                           \o additional_reasons)]
       ELSE [route |-> "Manual Review",
             reasoning |-> Join(". ",
                 <<"Damage amount not specified or could not be extracted">>
                 \o additional_reasons)]

ClaimType(extracted_fields) == Get(extracted_fields, "claim_type", Str("property_damage"))

determine_route_fraud_first(extracted_fields, missing_fields) ==
    IF FraudKeywordsFound(extracted_fields) # <<>> THEN FraudGate(extracted_fields)
    ELSE IF missing_fields # <<>> THEN CompletenessGate(missing_fields)
    ELSE IF ClaimType(extracted_fields) = Str("injury") THEN InjuryGate(extracted_fields)
    ELSE DamageGate(extracted_fields)

determine_route_injury_first(extracted_fields, missing_fields) ==
    IF missing_fields # <<>> THEN CompletenessGate(missing_fields)
    ELSE IF ClaimType(extracted_fields) = Str("injury") THEN InjuryGate(extracted_fields)
    ELSE IF FraudKeywordsFound(extracted_fields) # <<>> THEN FraudGate(extracted_fields)
    ELSE DamageGate(extracted_fields)

determine_route_damage_first(extracted_fields, missing_fields) ==
    IF missing_fields # <<>> THEN CompletenessGate(missing_fields)
    ELSE IF FraudKeywordsFound(extracted_fields) # <<>> THEN FraudGate(extracted_fields)
    ELSE IF Get(extracted_fields, "estimated_damage", Num(0)).v > 0
    THEN DamageGate(extracted_fields)
    ELSE IF ClaimType(extracted_fields) = Str("injury") THEN InjuryGate(extracted_fields)
    ELSE DamageGate(extracted_fields)

\* determine_route(extracted_fields, missing_fields) -> (route, reasoning): the
\* first rule that applies returns
determine_route(extracted_fields, missing_fields) ==
    IF missing_fields # <<>> THEN CompletenessGate(missing_fields)
    ELSE IF FraudKeywordsFound(extracted_fields) # <<>> THEN FraudGate(extracted_fields)
    ELSE IF ClaimType(extracted_fields) = Str("injury") THEN InjuryGate(extracted_fields)
    ELSE DamageGate(extracted_fields)

-----------------------------------------------------------------------------
(* Python's re module, for the regular expressions of src/src/field_extractor.py.
   A pattern is a sequence of items matched left to right with backtracking:
     Lit(w)              the characters of w, letter case ignored
     LitCase(w)          the characters of w as written (no re.IGNORECASE)
     Rep(c, lo, hi, lazy) lo to hi characters of the class c (hi < 0: no limit),
                         longest first, or shortest first when lazy
     Open, Close         the parentheses of the pattern's capturing group
     Ahead(alts)         (?=a|b|...): one of the alternatives matches here
     Alt(alts, lo)       (?:a|b|...), optional when lo = 0
     Eol                 $ under re.MULTILINE
     Dollar              $ without re.MULTILINE
     End                 \Z
     Invalid             a pattern re.compile rejects (re.error)
   A match is [ok, b, e, g]: found, its first and one-past-last position, and the
   first and one-past-last position of the group. *)

Lit(w) == [t |-> "lit", w |-> StrLower(w)]

LitCase(w) == [t |-> "litcase", w |-> w]

Rep(c, lo, hi, lazy) == [t |-> "rep", c |-> c, lo |-> lo, hi |-> hi, lazy |-> lazy]

Star(c) == Rep(c, 0, 0 - 1, FALSE)

Plus(c) == Rep(c, 1, 0 - 1, FALSE)

Opt(c) == Rep(c, 0, 1, FALSE)

One(c) == Rep(c, 1, 1, FALSE)

LazyStar(c) == Rep(c, 0, 0 - 1, TRUE)

LazyPlus(c) == Rep(c, 1, 0 - 1, TRUE)

Open == [t |-> "open"]

Close == [t |-> "close"]

Ahead(alts) == [t |-> "ahead", alts |-> alts]

Alt(alts, lo) == [t |-> "alt", alts |-> alts, lo |-> lo]

Eol == [t |-> "eol"]

Dollar == [t |-> "dollar"]

End == [t |-> "end"]

Invalid == [t |-> "invalid"]

\* character classes; a class is [set, neg]: the characters of set, or all others
In(set) == [set |-> set, neg |-> FALSE]

NotIn(set) == [set |-> set, neg |-> TRUE]

UpperChars == CharsOf(UPPER)

Letters == CharsOf(UPPER) \cup CharsOf(LOWER)

Digits == CharsOf(DIGITS)

Space == {" ", "\t", "\n", "\r", "\f"}

\* . without re.DOTALL, and with it
Dot == NotIn({"\n"})

DotAll == NotIn({})

InClass(ch, c) == IF c.neg THEN ch \notin c.set ELSE ch \in c.set

NoMatch == [ok |-> FALSE, b |-> 0, e |-> 0, g |-> <<0, 0>>]

\* the first match when there is one, the second otherwise
OrElse(first, second) == IF first.ok THEN first ELSE second

LitAt(s, i, w) ==
    /\ i + Len(w) - 1 <= Len(s)
    /\ LowerChar(Chr(s, i)) = Chr(w, 1)
    /\ StrLower(SubSeq(s, i, i + Len(w) - 1)) = w

\* the first position of lo..hi whose character is not of class c, hi + 1 when
\* there is none
FirstOutside(s, c, lo, hi) ==
    IF \A p \in lo..hi : InClass(Chr(s, p), c) THEN (IF lo > hi THEN lo ELSE hi + 1)
    ELSE CHOOSE p \in lo..hi :
             /\ ~InClass(Chr(s, p), c)
             /\ \A q \in lo..(p - 1) : InClass(Chr(s, q), c)

\* the last position of lo..hi whose character is not of class c, lo - 1 when
\* there is none
LastOutside(s, c, lo, hi) ==
    IF \A p \in lo..hi : InClass(Chr(s, p), c) THEN (IF lo > hi THEN hi ELSE lo - 1)
    ELSE CHOOSE p \in lo..hi :
             /\ ~InClass(Chr(s, p), c)
             /\ \A q \in (p + 1)..hi : InClass(Chr(s, q), c)

\* the number of characters of class c from position i on, hi at most (hi < 0: any)
RunLen(s, i, c, hi) ==
    FirstOutside(s, c, i, IF hi < 0 \/ i + hi - 1 > Len(s) THEN Len(s) ELSE i + hi - 1) - i

RECURSIVE MatchAt(_, _, _, _, _)
RECURSIVE RepAt(_, _, _, _, _, _)
RECURSIVE RepTry(_, _, _, _, _, _, _)
RECURSIVE TryRep(_, _, _, _, _, _, _, _)
RECURSIVE TryAlts(_, _, _, _, _, _)
RECURSIVE AnyAhead(_, _, _, _)

\* the items from the k-th on match at position i
MatchAt(s, items, k, i, g) ==
    IF k > Len(items) THEN [ok |-> TRUE, b |-> 0, e |-> i, g |-> g]
    ELSE CASE items[k].t = "lit" ->
              IF LitAt(s, i, items[k].w) THEN MatchAt(s, items, k + 1, i + Len(items[k].w), g)
              ELSE NoMatch
         [] items[k].t = "litcase" ->
              IF StartsAt(s, i, items[k].w) THEN MatchAt(s, items, k + 1, i + Len(items[k].w), g)
              ELSE NoMatch
         [] items[k].t = "rep" -> RepAt(s, items, k, i, g, RunLen(s, i, items[k].c, items[k].hi))
         [] items[k].t = "open" -> MatchAt(s, items, k + 1, i, <<i, g[2]>>)
         [] items[k].t = "close" -> MatchAt(s, items, k + 1, i, <<g[1], i>>)
         [] items[k].t = "ahead" ->
              IF AnyAhead(s, items[k].alts, 1, i) THEN MatchAt(s, items, k + 1, i, g)
              ELSE NoMatch
         [] items[k].t = "alt" -> TryAlts(s, items, k, i, g, 1)
         [] items[k].t = "eol" ->
              IF i = Len(s) + 1 \/ (i <= Len(s) /\ Chr(s, i) = "\n")
              THEN MatchAt(s, items, k + 1, i, g) ELSE NoMatch
         [] items[k].t = "dollar" ->
              IF i = Len(s) + 1 \/ (i = Len(s) /\ Chr(s, i) = "\n")
              THEN MatchAt(s, items, k + 1, i, g) ELSE NoMatch
         [] items[k].t = "end" ->
              IF i = Len(s) + 1 THEN MatchAt(s, items, k + 1, i, g) ELSE NoMatch
         [] items[k].t = "invalid" -> NoMatch

\* item k, a repetition with a run of run characters of its class at position i:
\* the first try, and the later ones when it fails
RepAt(s, items, k, i, g, run) ==
    IF run < items[k].lo THEN NoMatch
    ELSE IF run = items[k].lo THEN RepTry(s, items, k, i, g, run, 0)
    ELSE OrElse(RepTry(s, items, k, i, g, run, 0),
                TryRep(s, items, k, i, g, run, 1, run - items[k].lo))

\* item k repeated, then the rest, for the t-th count tried: the counts lo..run
\* are tried from the longest down (from the shortest up when lazy)
RepTry(s, items, k, i, g, run, t) ==
    MatchAt(s, items, k + 1, i + (IF items[k].lazy THEN items[k].lo + t ELSE run - t), g)

\* the first of the tries a..b that succeeds
TryRep(s, items, k, i, g, run, a, b) ==
    IF \E t \in a..b : RepTry(s, items, k, i, g, run, t).ok
    THEN RepTry(s, items, k, i, g, run,
                CHOOSE t \in a..b :
                    /\ RepTry(s, items, k, i, g, run, t).ok
                    /\ \A u \in a..(t - 1) : ~RepTry(s, items, k, i, g, run, u).ok)
    ELSE NoMatch

\* the alternatives of item k in order, then, for an optional group, none of them
TryAlts(s, items, k, i, g, a) ==
    IF a > Len(items[k].alts)
    THEN (IF items[k].lo = 0 THEN MatchAt(s, items, k + 1, i, g) ELSE NoMatch)
    ELSE LET r == MatchAt(s, items[k].alts[a] \o SubSeq(items, k + 1, Len(items)), 1, i, g)
         IN IF r.ok THEN r ELSE TryAlts(s, items, k, i, g, a + 1)

AnyAhead(s, alts, a, i) ==
    IF a > Len(alts) THEN FALSE
    ELSE MatchAt(s, alts[a], 1, i, <<0, 0>>).ok \/ AnyAhead(s, alts, a + 1, i)

\* re.search(pattern, s): the match at the leftmost position that has one
RECURSIVE SearchIn(_, _, _, _)
SearchIn(s, items, lo, hi) ==
    IF lo = hi
    THEN LET r == MatchAt(s, items, 1, lo, <<0, 0>>)
         IN IF r.ok THEN [r EXCEPT !.b = lo] ELSE NoMatch
    ELSE LET left == SearchIn(s, items, lo, (lo + hi) \div 2)
         IN IF left.ok THEN left ELSE SearchIn(s, items, (lo + hi) \div 2 + 1, hi)

Search(s, items) == SearchIn(s, items, 1, Len(s) + 1)

\* match.group(1)
Group(s, m) == SubSeq(s, m.g[1], m.g[2] - 1)

\* match.group(0)
Whole(s, m) == SubSeq(s, m.b, m.e - 1)

\* str.strip()
LStrip(s) == SubSeq(s, FirstOutside(s, In(Space), 1, Len(s)), Len(s))

RStrip(s) == SubSeq(s, 1, LastOutside(s, In(Space), 1, Len(s)))

Strip(s) == RStrip(LStrip(s))

\* re.sub(r'\s+', ' ', s)
CollapseSpace(s) ==
    Concat([i \in 1..Len(s) |->
               IF Chr(s, i) \notin Space THEN Chr(s, i)
               ELSE IF i > 1 /\ Chr(s, i - 1) \in Space THEN "" ELSE " "])

-----------------------------------------------------------------------------
(* src/src/field_extractor.py: FieldExtractor.PATTERNS.  Every pattern is searched
   with re.IGNORECASE | re.MULTILINE, so a letter class holds both cases. *)

Ws == In(Space)

ColonWs == In(Space \cup {":"})

Digit == In(Digits)

Letter == In(Letters)

Alnum == In(Letters \cup Digits)

\* ([A-Z0-9\-_]+[A-Z0-9])(?=\s|$|\n)
PolicyValue ==
    << Open, Plus(In(Letters \cup Digits \cup {"-", "_"})), One(Alnum), Close,
       Ahead(<< <<One(Ws)>>, <<Eol>>, <<Lit("\n")>> >>) >>

\* ([A-Z][a-zA-Z\s]+?)
NameGroup == << Open, One(Letter), LazyPlus(In(Letters \cup Space)), Close >>

\* (?=\s*\n|\s*$)
LineEndAhead == Ahead(<< <<Star(Ws), Lit("\n")>>, <<Star(Ws), Eol>> >>)

\* ([0-9]{1,2}/[0-9]{1,2}/[0-9]{4})
SlashDate ==
    << Open, Rep(Digit, 1, 2, FALSE), Lit("/"), Rep(Digit, 1, 2, FALSE), Lit("/"),
       Rep(Digit, 4, 4, FALSE), Close >>

\* ([A-Z][a-z]+\s+\d{1,2},\s+\d{4})
MonthNameDate ==
    << Open, One(Letter), Plus(Letter), Plus(Ws), Rep(Digit, 1, 2, FALSE), Lit(","),
       Plus(Ws), Rep(Digit, 4, 4, FALSE), Close >>

\* (\d{1,2}:\d{2}\s*[AP]M)
ClockTime ==
    << Open, Rep(Digit, 1, 2, FALSE), Lit(":"), Rep(Digit, 2, 2, FALSE), Star(Ws),
       One(In({"A", "P", "a", "p"})), Lit("M"), Close >>

\* (.*?)(?=\s*\n[A-Z]|\s*\n\d|\s*$)
LocationValue ==
    << Open, LazyStar(Dot), Close,
       Ahead(<< <<Star(Ws), Lit("\n"), One(Letter)>>, <<Star(Ws), Lit("\n"), One(Digit)>>,
                <<Star(Ws), Eol>> >>) >>

\* (.*?)(?=\n[A-Z]{2,}|\n\d|\n\n|\Z)
DescriptionValue ==
    << Open, LazyStar(Dot), Close,
       Ahead(<< <<Lit("\n"), Rep(Letter, 2, 0 - 1, FALSE)>>, <<Lit("\n"), One(Digit)>>,
                <<Lit("\n\n")>>, <<End>> >>) >>

\* \$?\s*([0-9,]+\.?[0-9]*)
AmountValue ==
    << Opt(In({"$"})), Star(Ws), Open, Plus(In(Digits \cup {","})), Opt(In({"."})),
       Star(Digit), Close >>

\* (?:\(?[A-Z]?\)?\s*)?([0-9\-\(\)\.\s]{10,})
PhoneValue ==
    << Alt(<< <<Opt(In({"("})), Opt(Letter), Opt(In({")"})), Star(Ws)>> >>, 0),
       Open, Rep(In(Digits \cup Space \cup {"-", "(", ")", "."}), 10, 0 - 1, FALSE), Close >>

\* ([A-Za-z0-9._%+-]+@[A-Za-z0-9.-]+\.[A-Z|a-z]{2,})
EmailValue ==
    << Open, Plus(In(Letters \cup Digits \cup {".", "_", "%", "+", "-"})), Lit("@"),
       Plus(In(Letters \cup Digits \cup {".", "-"})), Lit("."),
       Rep(In(Letters \cup {"|"}), 2, 0 - 1, FALSE), Close >>

\* (.*?)(?=\s*\n|\s*$)
RestOfLine == << Open, LazyStar(Dot), Close, LineEndAhead >>

FIELDS ==
    << "policy_number", "policyholder_name", "effective_dates", "date_of_loss",
       "time_of_loss", "location", "description", "asset_type", "asset_id",
       "estimated_damage", "estimate_amount", "claimant", "contact_details",
       "attachments", "initial_estimate" >>

PATTERNS ==
    [policy_number |->
       << <<Lit("Policy"), Star(Ws), Lit("Number"), Plus(ColonWs)>> \o PolicyValue,
          <<Lit("POLICY"), Star(Ws), Lit("NUMBER"), Plus(ColonWs)>> \o PolicyValue,
          <<Lit("Policy"), Star(Ws), Lit("#"), Plus(ColonWs)>> \o PolicyValue,
          <<Lit("POLICY"), Plus(ColonWs)>> \o PolicyValue,
          \* (?<=\bPolicy(?: Number|#| No\.?)?[:\s]): a look-behind of variable
          \* width, which re rejects; _extract_with_patterns skips the pattern
          <<Invalid>> >>,
     policyholder_name |->
       << <<Lit("Policyholder"), Star(Ws), Lit("Name"), Plus(ColonWs)>> \o NameGroup
             \o <<Ahead(<< <<Star(Ws), Lit("\n")>>, <<Star(Ws), Eol>>,
                           <<Star(Ws), One(Letter)>> >>)>>,
          <<Lit("NAME"), Star(Ws), Lit("OF"), Star(Ws), Lit("INSURED"), Plus(ColonWs)>>
             \o NameGroup \o <<LineEndAhead>>,
          <<Lit("Named"), Star(Ws), Lit("Insured"), Plus(ColonWs)>>
             \o NameGroup \o <<LineEndAhead>>,
          <<Lit("Insured"), Star(Ws), Lit("Name"), Plus(ColonWs)>>
             \o NameGroup \o <<LineEndAhead>>,
          <<Lit("Name"), Plus(ColonWs)>> \o NameGroup
             \o <<Ahead(<< <<Star(Ws), Lit("\n")>>, <<Star(Ws), One(Digit)>>,
                           <<Star(Ws), Rep(Letter, 2, 0 - 1, FALSE)>> >>)>>,
          <<Lit("CLAIMANT"), Plus(ColonWs)>> \o NameGroup \o <<LineEndAhead>> >>,
     effective_dates |->
       << <<Lit("Effective"), Star(Ws), Lit("Date"), Plus(ColonWs)>> \o SlashDate,
          <<Lit("Policy"), Star(Ws), Lit("Period"), Plus(ColonWs)>> \o SlashDate,
          <<Lit("Coverage"), Star(Ws), Lit("Dates"), Plus(ColonWs)>> \o SlashDate >>,
     date_of_loss |->
       << <<Lit("Date"), Star(Ws), Lit("of"), Star(Ws), Lit("Loss"), Plus(ColonWs)>>
             \o MonthNameDate,
          <<Lit("DATE"), Star(Ws), Lit("OF"), Star(Ws), Lit("LOSS"), Plus(ColonWs)>>
             \o SlashDate,
          <<Lit("Date"), Plus(ColonWs)>> \o MonthNameDate,
          <<Lit("Loss"), Star(Ws), Lit("Date"), Plus(ColonWs)>> \o SlashDate,
          <<Lit("Incident"), Star(Ws), Lit("Date"), Plus(ColonWs)>> \o SlashDate >>,
     time_of_loss |->
       << <<Lit("Time"), Plus(ColonWs)>> \o ClockTime,
          <<Lit("Time"), Star(Ws), Lit("of"), Star(Ws), Lit("Loss"), Plus(ColonWs)>>
             \o ClockTime,
          ClockTime \o <<Ahead(<< <<Star(Ws), Lit("on")>>, <<Star(Ws), Lit("date")>> >>)>> >>,
     location |->
       << <<Lit("Location"), Plus(ColonWs)>> \o LocationValue,
          <<Lit("LOCATION"), Star(Ws), Lit("OF"), Star(Ws), Lit("LOSS"), Plus(ColonWs)>>
             \o LocationValue,
          <<Lit("Address"), Plus(ColonWs)>> \o LocationValue,
          <<Lit("STREET"), Plus(ColonWs)>> \o LocationValue >>,
     description |->
       << <<Lit("Description"), Plus(ColonWs)>> \o DescriptionValue,
          <<Lit("DESCRIPTION"), Plus(ColonWs)>> \o DescriptionValue,
          <<Lit("Loss"), Star(Ws), Lit("Description"), Plus(ColonWs)>> \o DescriptionValue,
          <<Lit("Remarks"), Plus(ColonWs)>> \o DescriptionValue,
          <<Lit("DESCRIPTION"), Star(Ws), Lit("OF"), Star(Ws),
            Alt(<< <<Lit("ACCIDENT")>>, <<Lit("LOSS")>>, <<Lit("INCIDENT")>> >>, 1),
            Plus(ColonWs), Open, LazyStar(Dot), Close,
            Ahead(<< <<Lit("\n1.")>>, <<Lit("\n"), Rep(Letter, 2, 0 - 1, FALSE)>>,
                     <<Lit("\n"), One(Digit)>>, <<End>> >>)>> >>,
     asset_type |->
       << <<Lit("Vehicle"), Star(Ws), Lit("Type"), Plus(ColonWs), Open,
            Plus(In(Letters \cup Space)), Close>>,
          <<Lit("Asset"), Star(Ws), Lit("Type"), Plus(ColonWs), Open,
            Plus(In(Letters \cup Space)), Close>>,
          <<Lit("Type"), Star(Ws), Lit("of"), Star(Ws), Lit("Vehicle"), Plus(ColonWs), Open,
            Plus(In(Letters \cup Space)), Close>> >>,
     asset_id |->
       << <<Lit("V.I.N."), Star(Ws), Plus(ColonWs), Open, Rep(Alnum, 17, 17, FALSE), Close>>,
          <<Lit("VIN"), Plus(ColonWs), Open, Rep(Alnum, 17, 17, FALSE), Close>>,
          <<Lit("Vehicle"), Star(Ws), Lit("ID"), Plus(ColonWs), Open, Plus(Alnum), Close>> >>,
     estimated_damage |->
       << <<Lit("Damage"), Star(Ws), Lit("Estimate"), Plus(ColonWs)>> \o AmountValue,
          <<Lit("ESTIMATE"), Star(Ws), Lit("AMOUNT"), Plus(ColonWs)>> \o AmountValue,
          <<Lit("Estimated"), Star(Ws), Lit("Damage"), Plus(ColonWs)>> \o AmountValue,
          <<Lit("Amount"), Plus(ColonWs)>> \o AmountValue,
          <<Alt(<< <<Lit("Estimate")>>, <<Lit("Damage")>>, <<Lit("Amount")>> >>, 1),
            Plus(ColonWs)>> \o AmountValue >>,
     estimate_amount |->
       << <<Lit("ESTIMATE"), Star(Ws), Lit("AMOUNT"), Plus(ColonWs)>> \o AmountValue,
          <<Lit("Damage"), Star(Ws), Lit("Estimate"), Plus(ColonWs)>> \o AmountValue,
          <<Lit("Estimated"), Star(Ws), Lit("Damage"), Plus(ColonWs)>> \o AmountValue,
          <<Lit("$"), Open, Plus(In(Digits \cup {","})), Opt(In({"."})), Star(Digit),
            Close>> >>,
     claimant |->
       << <<Lit("Claimant"), Plus(ColonWs)>> \o NameGroup \o <<LineEndAhead>>,
          <<Lit("Driver"), Star(Ws), Lit("Name"), Plus(ColonWs)>>
             \o NameGroup \o <<LineEndAhead>>,
          <<Lit("NAME"), Star(Ws), Lit("OF"), Star(Ws), Lit("CONTACT"), Plus(ColonWs)>>
             \o NameGroup \o <<LineEndAhead>> >>,
     contact_details |->
       << <<Lit("Phone"), Plus(ColonWs)>> \o PhoneValue,
          <<Lit("PHONE"), Plus(ColonWs)>> \o PhoneValue,
          <<Lit("Contact"), Plus(ColonWs)>> \o PhoneValue,
          <<Lit("E-MAIL"), Plus(ColonWs)>> \o EmailValue,
          <<Lit("Email"), Plus(ColonWs)>> \o EmailValue >>,
     attachments |->
       << <<Lit("Attachments"), Plus(ColonWs)>> \o RestOfLine,
          <<Lit("Documents"), Star(Ws), Lit("Attached"), Plus(ColonWs)>> \o RestOfLine,
          <<Lit("Photos"), Plus(ColonWs)>> \o RestOfLine >>,
     initial_estimate |->
       << <<Lit("Initial"), Star(Ws), Lit("Estimate"), Plus(ColonWs)>> \o AmountValue,
          <<Lit("Initial"), Star(Ws), Lit("Assessment"), Plus(ColonWs)>> \o AmountValue >>]

-----------------------------------------------------------------------------
(* src/src/field_extractor.py: value coercion *)

DigitValue(ch) == (CHOOSE i \in 1..10 : Chr(DIGITS, i) = ch) - 1

\* int(s) for a string of digits; 0 for the empty string
RECURSIVE DigitsValue(_)
DigitsValue(s) ==
    IF s = "" THEN 0
    ELSE DigitsValue(SubSeq(s, 1, Len(s) - 1)) * 10 + DigitValue(Chr(s, Len(s)))

\* the position of the first "." of s, 0 when there is none
RECURSIVE PointAt(_, _)
PointAt(s, i) == IF i > Len(s) THEN 0 ELSE IF Chr(s, i) = "." THEN i ELSE PointAt(s, i + 1)

\* float(clean_str) for a string of digits and points, in hundredths (digits past
\* the second decimal are outside the amounts the model draws); None stands for
\* the ValueError of a string float() rejects
FloatOf(clean_str) ==
    LET p == PointAt(clean_str, 1)
        whole == IF p = 0 THEN clean_str ELSE SubSeq(clean_str, 1, p - 1)
        frac == IF p = 0 THEN "" ELSE SubSeq(clean_str, p + 1, Len(clean_str))
        cents == SubSeq(frac \o "00", 1, 2)
    IN IF PointAt(frac, 1) # 0 \/ (whole = "" /\ frac = "") THEN None
       ELSE Num(DigitsValue(whole) * 100 + DigitsValue(cents))

_parse_amount_unguarded(amount_str) == FloatOf(KeepChars(amount_str, Digits \cup {"."}))

_parse_amount(amount_str) ==
    LET clean_str == KeepChars(amount_str, Digits \cup {"."})
    IN IF clean_str # "" /\ FloatOf(clean_str) # None THEN FloatOf(clean_str) ELSE Num(0)

MONTHS ==
    << "january", "february", "march", "april", "may", "june", "july", "august",
       "september", "october", "november", "december" >>

MONTHS_ABBR ==
    << "jan", "feb", "mar", "apr", "may", "jun", "jul", "aug", "sep", "oct", "nov", "dec" >>

IsLeap(y) == (y % 4 = 0 /\ y % 100 # 0) \/ y % 400 = 0

DaysIn(m, y) ==
    IF m = 2 THEN (IF IsLeap(y) THEN 29 ELSE 28)
    ELSE IF m \in {4, 6, 9, 11} THEN 30 ELSE 31

Pad2(n) == Chr(DIGITS, (n \div 10) + 1) \o Chr(DIGITS, (n % 10) + 1)

\* dt.strftime('%Y-%m-%d'), for a year of four digits
IsoDate(y, m, d) == NatStr(y) \o "-" \o Pad2(m) \o "-" \o Pad2(d)

ValidDate(y, m, d) == y >= 1 /\ m \in 1..12 /\ d >= 1 /\ d <= DaysIn(m, y)

\* the date strptime builds of three numbers, "" for the ValueError of numbers
\* that are no date
DateOf(year, month, day) ==
    IF ValidDate(year, month, day) THEN IsoDate(year, month, day) ELSE ""

\* the month a name stands for, 0 when it is no name of the list
MonthIndex(names, name) ==
    IF \E i \in 1..12 : names[i] = name THEN CHOOSE i \in 1..12 : names[i] = name ELSE 0

\* the day and the year of "<day>, <year>" around the comma at position comma
DayCommaYear(month, rest, comma) ==
    DateOf(DigitsValue(KeepChars(SubSeq(rest, comma, Len(rest)), Digits)), month,
           DigitsValue(KeepChars(SubSeq(rest, 1, comma), Digits)))

MonthNameMatch(date_str, names, m) ==
    IF m.ok /\ m.b = 1
    THEN DayCommaYear(MonthIndex(names, StrLower(Group(date_str, m))),
                      SubSeq(date_str, m.g[2], Len(date_str)),
                      CHOOSE i \in 1..(Len(date_str) - m.g[2] + 1) :
                          Chr(date_str, m.g[2] + i - 1) = ",")
    ELSE ""

\* datetime.strptime(date_str, '<month name> %d, %Y') with the given month names
MonthNameParse(date_str, names) ==
    MonthNameMatch(date_str, names,
                   Search(date_str,
                          << Open, Plus(Letter), Close, Plus(Ws), Rep(Digit, 1, 2, FALSE),
                             Lit(","), Plus(Ws), Rep(Digit, 4, 4, FALSE), End >>))

\* %y: a year of two digits is 2000 to 2068 or 1969 to 1999
ShortYear(yy) == IF yy <= 68 THEN 2000 + yy ELSE 1900 + yy

\* the three numbers of a slash date, month first or day first
SlashNumbers(first, second, year, dayFirst) ==
    IF dayFirst THEN DateOf(year, second, first) ELSE DateOf(year, first, second)

\* "<second>/<year>" around the slash at position slash
SlashRest(first, rest, slash, dayFirst, short) ==
    SlashNumbers(first, DigitsValue(SubSeq(rest, 1, slash - 1)),
                 IF short THEN ShortYear(DigitsValue(SubSeq(rest, slash + 1, Len(rest))))
                 ELSE DigitsValue(SubSeq(rest, slash + 1, Len(rest))),
                 dayFirst)

SlashMatch(date_str, m, dayFirst, short) ==
    IF m.ok /\ m.b = 1
    THEN SlashRest(DigitsValue(Group(date_str, m)),
                   SubSeq(date_str, m.g[2] + 1, Len(date_str)),
                   CHOOSE i \in 1..(Len(date_str) - m.g[2]) : Chr(date_str, m.g[2] + i) = "/",
                   dayFirst, short)
    ELSE ""

\* datetime.strptime(date_str, '%m/%d/%Y') and, day first, '%d/%m/%Y'
SlashParse(date_str, dayFirst) ==
    SlashMatch(date_str,
               Search(date_str,
                      << Open, Rep(Digit, 1, 2, FALSE), Close, Lit("/"),
                         Rep(Digit, 1, 2, FALSE), Lit("/"), Rep(Digit, 4, 4, FALSE), End >>),
               dayFirst, FALSE)

\* datetime.strptime(date_str, '%m/%d/%y') and, day first, '%d/%m/%y'
SlashParseShort(date_str, dayFirst) ==
    SlashMatch(date_str,
               Search(date_str,
                      << Open, Rep(Digit, 1, 2, FALSE), Close, Lit("/"),
                         Rep(Digit, 1, 2, FALSE), Lit("/"), Rep(Digit, 2, 2, FALSE), End >>),
               dayFirst, TRUE)

\* the first format that takes the string, the ValueError of a format being ""
OrFormat(parsed, later) == IF parsed # "" THEN parsed ELSE later

\* the formats are tried in order; of the nine, '%B %d, %Y %I:%M %p', '%Y-%m-%d'
\* and '%d-%m-%Y' take no string that a date_of_loss pattern captures
_parse_date(date_str) ==
    OrFormat(MonthNameParse(date_str, MONTHS),
    OrFormat(MonthNameParse(date_str, MONTHS_ABBR),
    OrFormat(SlashParse(date_str, FALSE),
    OrFormat(SlashParseShort(date_str, FALSE),
    OrFormat(SlashParse(date_str, TRUE),
    OrFormat(SlashParseShort(date_str, TRUE), date_str))))))

\* s without the match m, s itself when nothing matched
Cut(s, m) == IF m.ok THEN SubSeq(s, 1, m.b - 1) \o SubSeq(s, m.e, Len(s)) ELSE s

\* re.sub(pattern, '', s) for a pattern that ends in $
SubEnd(s, items) == Cut(s, Search(s, items))

\* re.sub(r'^[:\.\-\s]+', '', s)
RECURSIVE LStripPunct(_)
LStripPunct(s) ==
    IF s # "" /\ Head(s) \in Space \cup {":", ".", "-"} THEN LStripPunct(Tail(s)) ELSE s

DESC_LIMIT == 2000

DESC_KEEP == 1500

SentenceEnd == {".", "!", "?"}

\* a piece of re.split(r'[.!?]+', desc) begins at the first character and after
\* every run of sentence ends
PieceStart(desc, i) ==
    \/ i = 1
    \/ /\ Chr(desc, i - 1) \in SentenceEnd
       /\ i > Len(desc) \/ Chr(desc, i) \notin SentenceEnd

\* the piece that begins at a place: the characters up to the next sentence end
PieceAt(desc, start) ==
    SubSeq(desc, start, FirstOutside(desc, NotIn(SentenceEnd), start, Len(desc)) - 1)

\* the pieces that begin at the places lo..hi, in order
RECURSIVE Pieces(_, _, _)
Pieces(desc, lo, hi) ==
    IF lo = hi THEN (IF PieceStart(desc, lo) THEN <<PieceAt(desc, lo)>> ELSE <<>>)
    ELSE Pieces(desc, lo, (lo + hi) \div 2) \o Pieces(desc, (lo + hi) \div 2 + 1, hi)

\* re.split(r'[.!?]+', desc)
SplitSentences(desc) == Pieces(desc, 1, Len(desc) + 1)

\* for sentence in sentences: if len(trimmed + sentence) < 1500: trimmed +=
\* sentence + "." else: break
RECURSIVE TrimTo(_, _)
TrimTo(sentences, trimmed) ==
    IF sentences = <<>> THEN trimmed
    ELSE IF Len(trimmed \o Head(sentences)) < DESC_KEEP
    THEN TrimTo(Tail(sentences), trimmed \o Head(sentences) \o ".")
    ELSE trimmed

\* desc.replace('Iight', 'light').replace('poIe', 'pole').replace('Iot', 'lot')
\* .replace('corners', 'corners')
FixOcr(desc) ==
    StrReplace(StrReplace(StrReplace(StrReplace(
        desc, "Iight", "light"), "poIe", "pole"), "Iot", "lot"), "corners", "corners")

\* trimmed.strip() if trimmed else desc[:1500] + "..."
OrEllipsis(trimmed, desc) ==
    IF trimmed # "" THEN trimmed ELSE SubSeq(desc, 1, DESC_KEEP) \o "..."

\* a description of more than 1500 characters cut at a sentence end
TrimDescriptionOverKeep(desc) ==
    IF Len(desc) > DESC_KEEP THEN OrEllipsis(TrimTo(SplitSentences(desc), ""), desc)
    ELSE desc


\* a description of more than 2000 characters cut at a sentence end
TrimDescription(desc) ==
    IF Len(desc) > DESC_LIMIT THEN OrEllipsis(TrimTo(SplitSentences(desc), ""), desc)
    ELSE desc

\* the description before its length is limited: white space collapsed, the
\* punctuation at both ends removed, the OCR errors fixed
Tidied(desc) ==
    FixOcr(SubEnd(LStripPunct(CollapseSpace(Strip(desc))),
                  <<Plus(In(Space \cup {":", ".", "-"})), Dollar>>))

_clean_description(desc) == IF desc = "" THEN "" ELSE TrimDescription(Tidied(desc))

\* the field-specific cleaning of a value whose white space is collapsed
CleanAs(value, field_name) ==
    IF field_name \in {"estimated_damage", "initial_estimate", "estimate_amount"}
    THEN _parse_amount(value)
    ELSE IF field_name = "date_of_loss" THEN Str(_parse_date(value))
    ELSE IF field_name \in {"policy_number", "asset_id"} THEN Str(StrUpper(value))
    ELSE IF field_name = "description" THEN Str(_clean_description(value))
    ELSE IF field_name \in {"policyholder_name", "claimant"}
    THEN Str(SubEnd(SubEnd(value, <<Plus(Ws), One(In(UpperChars)), Opt(In({"."})),
                                    Dollar>>),
                    <<Plus(Ws),
                      Alt(<< <<Lit("JR")>>, <<Lit("SR")>>, <<Lit("II")>>,
                             <<Lit("III")>>, <<Lit("IV")>>, <<Lit("V")>> >>, 1),
                      Dollar>>))
    ELSE Str(value)

\* _clean_field_value(value, field_name): None, a Str or a Num
_clean_field_value(raw, field_name) ==
    IF raw = "" THEN None ELSE CleanAs(CollapseSpace(Strip(raw)), field_name)

-----------------------------------------------------------------------------
(* src/src/field_extractor.py: extraction *)

\* re.sub(r' {2,}', ' ', text)
CollapseBlanks(s) ==
    Concat([i \in 1..Len(s) |->
               IF Chr(s, i) = " " /\ i > 1 /\ Chr(s, i - 1) = " " THEN "" ELSE Chr(s, i)])

\* re.sub(r'\n{3,}', '\n\n', text)
CollapseNewlines(s) ==
    Concat([i \in 1..Len(s) |->
               IF i > 2 /\ SubSeq(s, i - 2, i) = "\n\n\n" THEN "" ELSE Chr(s, i)])

_normalize_text(raw) ==
    IF raw = "" THEN ""
    ELSE Strip(CollapseNewlines(StrReplace(CollapseBlanks(raw), "\r\n", "\n")))

\* match.group(1).strip() if match.groups() else match.group(0).strip(), every
\* pattern having a group; "" when the pattern did not match
GroupValue(s, m) == IF m.ok THEN Strip(Group(s, m)) ELSE ""

\* the value of the last pattern that has one
OrValueOfLater(value, later) == IF later # "" THEN later ELSE value


\* the first non-empty value, "" standing for a pattern without one
OrValue(value, later) == IF value # "" THEN value ELSE later

\* the value of the first of the patterns lo..hi that has one, the patterns taken
\* in order and a later one searched only when the earlier ones gave nothing
RECURSIVE FirstValue(_, _, _, _)
FirstValue(s, patterns, lo, hi) ==
    IF lo = hi THEN GroupValue(s, Search(s, patterns[lo]))
    ELSE OrValue(FirstValue(s, patterns, lo, (lo + hi) \div 2),
                 FirstValue(s, patterns, (lo + hi) \div 2 + 1, hi))

\* if value: return cls._clean_field_value(value, field_name), and return None
\* after the loop
CleanedOrNone(value, field_name) ==
    IF value # "" THEN _clean_field_value(value, field_name) ELSE None

\* _extract_with_patterns(text, patterns, field_name): the cleaned first group of
\* the first pattern that matches with a non-blank group, None when there is none
_extract_with_patterns(s, patterns, field_name) ==
    IF patterns = <<>> THEN None
    ELSE CleanedOrNone(FirstValue(s, patterns, 1, Len(patterns)), field_name)

\* dict.update(other)
Update(d, other) == other @@ d

\* if value: results[field] = value
PutTruthy(results, field, value) ==
    IF Truthy(value) THEN Put(results, field, value) ELSE results

\* value = cls._extract_with_patterns(text, patterns, field) for every field of
\* the table, as pairs of a field and its value
FieldValues(s, names) ==
    [i \in 1..Len(names) |->
        <<names[i], _extract_with_patterns(s, PATTERNS[names[i]], names[i])>>]

\* if value:
HasValue(entry) == Truthy(entry[2])

\* the dict of a list of pairs, no key being paired twice
DictOf(entries) ==
    [key \in {entries[i][1] : i \in DOMAIN entries} |->
        entries[CHOOSE i \in DOMAIN entries : entries[i][1] = key][2]]

\* for field, patterns in PATTERNS.items(): value = ...; if value: results[field] = value
ExtractFields(s, names, results) ==
    Update(results, DictOf(SelectSeq(FieldValues(s, names), HasValue)))

\* no group tested
_infer_claim_type_default(description) == "property_damage"


\* the first list, in order, one of whose keywords occurs in the description
_infer_claim_type(description) ==
    LET desc_lower == StrLower(description)
        injury_keywords == {"injury", "injured", "hurt", "pain", "hospital", "ambulance",
                            "medical", "whiplash", "fracture", "broken bone", "concussion",
                            "emergency room", "er"}
        theft_keywords == {"stolen", "theft", "robbery", "burglary", "break-in",
                           "missing vehicle", "car stolen", "auto theft"}
        fire_keywords == {"fire", "burned", "arson", "smoke", "flame", "ignite"}
        water_keywords == {"flood", "water", "leak", "pipe burst", "rain", "storm",
                           "hurricane", "flooding"}
        vandalism_keywords == {"vandal", "graffiti", "broken window", "keyed", "scratched",
                               "malicious", "intentional"}
        vehicle_keywords == {"vehicle", "car", "truck", "auto", "accident", "collision",
                             "crash", "wreck", "rear-end", "bumper"}
    IN IF description = "" THEN "property_damage"
       ELSE IF AnyWord(desc_lower, injury_keywords) THEN "injury"
       ELSE IF AnyWord(desc_lower, theft_keywords) THEN "theft"
       ELSE IF AnyWord(desc_lower, fire_keywords) THEN "fire"
       ELSE IF AnyWord(desc_lower, water_keywords) THEN "water_damage"
       ELSE IF AnyWord(desc_lower, vandalism_keywords) THEN "vandalism"
       ELSE IF AnyWord(desc_lower, vehicle_keywords) THEN "vehicle_damage"
       ELSE "property_damage"

\* the vehicle section: the first of the three patterns that matches (re.IGNORECASE
\* | re.DOTALL), as match.group(0)
VEHICLE_SECTION_PATTERNS ==
    << <<Lit("VEH"), Star(Ws), Lit("#"), LazyStar(DotAll), Lit("DESCRIBE DAMAGE")>>,
       <<Lit("VEHICLE INFORMATION"), LazyStar(DotAll), Lit("DESCRIBE DAMAGE")>>,
       <<Lit("YEAR"), LazyStar(DotAll), Lit("MAKE"), LazyStar(DotAll), Lit("MODEL"),
         LazyStar(DotAll), Lit("VIN")>> >>

RECURSIVE VehicleSection(_, _)
VehicleSection(s, patterns) ==
    IF patterns = <<>> THEN NoMatch
    ELSE OrElse(Search(s, Head(patterns)), VehicleSection(s, Tail(patterns)))

\* one key of vehicle_info: set when its pattern matches in the section
Stripped(s, strip) == IF strip THEN Strip(s) ELSE s

Uppered(s, upper) == IF upper THEN StrUpper(s) ELSE s

\* vehicle_info[key] = match.group(1), stripped or upper-cased as the key's line does
VehicleEntry(section, key, m, upper, strip) ==
    IF m.ok THEN Put(EmptyDict, key, Str(Uppered(Stripped(Group(section, m), strip), upper)))
    ELSE EmptyDict

VehicleKey(section, key, items, upper, strip) ==
    VehicleEntry(section, key, Search(section, items), upper, strip)

\* [:\s]* between a label and its value
VehicleLabel == <<Star(Ws), Star(ColonWs), Open>>

\* the five keys searched in the text of the section
VehicleKeys(vehicle_text) ==
    Update(Update(Update(Update(
    VehicleKey(vehicle_text, "year",
               <<Lit("YEAR")>> \o VehicleLabel \o <<Rep(Digit, 4, 4, FALSE), Close>>,
               FALSE, TRUE),
    VehicleKey(vehicle_text, "make",
               <<Lit("MAKE")>> \o VehicleLabel \o <<Plus(In(Letters \cup Space)), Close>>,
               FALSE, TRUE)),
    VehicleKey(vehicle_text, "model",
               <<Lit("MODEL")>> \o VehicleLabel
                  \o <<Plus(In(Letters \cup Digits \cup Space \cup {"-"})), Close>>,
               FALSE, TRUE)),
    VehicleKey(vehicle_text, "vin",
               <<Lit("V"), Opt(In({"."})), Lit("I"), Opt(In({"."})), Lit("N"),
                 Opt(In({"."}))>> \o VehicleLabel \o <<Rep(Alnum, 17, 17, FALSE), Close>>,
               TRUE, FALSE)),
    VehicleKey(vehicle_text, "plate_number",
               <<Lit("PLATE"), Star(Ws),
                 Alt(<< <<Lit("NUMBER")>>, <<Lit("NO")>>, <<Lit("#")>> >>, 1)>>
                  \o VehicleLabel
                  \o <<Plus(In(Letters \cup Digits \cup Space \cup {"-"})), Close>>,
               TRUE, TRUE))

\* if vehicle_match: the keys of vehicle_match.group(0)
SectionKeys(s, found) == IF found.ok THEN VehicleKeys(Whole(s, found)) ELSE EmptyDict

_extract_vehicle_info(s) == SectionKeys(s, VehicleSection(s, VEHICLE_SECTION_PATTERNS))

\* (?:\(?\d{3}\)?[-.\s]?)?(\d{3}[-.\s]?\d{4})
LocalNumber ==
    << Alt(<< <<Opt(In({"("})), Rep(Digit, 3, 3, FALSE), Opt(In({")"})),
              Opt(In(Space \cup {"-", "."}))>> >>, 0),
       Open, Rep(Digit, 3, 3, FALSE), Opt(In(Space \cup {"-", "."})),
       Rep(Digit, 4, 4, FALSE), Close >>

\* searched with re.IGNORECASE only
PHONE_PATTERNS ==
    << <<Lit("Phone"), Plus(ColonWs)>> \o LocalNumber,
       <<Lit("PHONE"), Plus(ColonWs)>> \o LocalNumber,
       <<Lit("Contact"), Plus(ColonWs)>> \o LocalNumber,
       <<Lit("Telephone"), Plus(ColonWs)>> \o LocalNumber,
       <<Lit("Tel"), Plus(ColonWs)>> \o LocalNumber,
       << Open, Rep(Digit, 3, 3, FALSE), Opt(In(Space \cup {"-", "."})),
          Rep(Digit, 3, 3, FALSE), Opt(In(Space \cup {"-", "."})),
          Rep(Digit, 4, 4, FALSE), Close,
          Ahead(<< <<One(Ws)>>, <<Dollar>>, <<Lit("\n")>> >>) >> >>

\* ([a-zA-Z0-9._%+-]+@[a-zA-Z0-9.-]+\.[a-zA-Z]{2,})
Address ==
    << Open, Plus(In(Letters \cup Digits \cup {".", "_", "%", "+", "-"})), Lit("@"),
       Plus(In(Letters \cup Digits \cup {".", "-"})), Lit("."),
       Rep(Letter, 2, 0 - 1, FALSE), Close >>

EMAIL_PATTERNS ==
    << <<Lit("Email"), Plus(ColonWs)>> \o Address,
       <<Lit("E-MAIL"), Plus(ColonWs)>> \o Address,
       <<Lit("Contact"), Plus(ColonWs)>> \o Address,
       Address >>

\* the digits of the first phone pattern whose match holds ten digits or more
\* re.sub(r'[^\d]', '', match.group(1)), "" when the pattern did not match
PhoneDigits(s, m) == IF m.ok THEN KeepChars(Group(s, m), Digits) ELSE ""

RECURSIVE PhoneOf(_, _)
RECURSIVE PhoneOrNext(_, _, _)
PhoneOf(s, patterns) ==
    IF patterns = <<>> THEN ""
    ELSE PhoneOrNext(s, patterns, PhoneDigits(s, Search(s, Head(patterns))))

\* if len(phone) >= 10: the phone is taken, and the next pattern tried otherwise
PhoneOrNext(s, patterns, phone) ==
    IF Len(phone) >= 10 THEN phone ELSE PhoneOf(s, Tail(patterns))

RECURSIVE EmailOf(_, _)
RECURSIVE EmailOrNext(_, _, _)
EmailOf(s, patterns) ==
    IF patterns = <<>> THEN ""
    ELSE EmailOrNext(s, patterns, Search(s, Head(patterns)))

EmailOrNext(s, patterns, m) ==
    IF m.ok THEN StrLower(Group(s, m)) ELSE EmailOf(s, Tail(patterns))

\* one key of contact_info, set when a pattern gave a value
ContactEntry(key, value) == IF value # "" THEN Put(EmptyDict, key, Str(value)) ELSE EmptyDict

_extract_contact_info(s) ==
    Update(ContactEntry("contact_phone", PhoneOf(s, PHONE_PATTERNS)),
           ContactEntry("contact_email", EmailOf(s, EMAIL_PATTERNS)))

\* the two damage keys made to agree when exactly one is present
SyncAmounts(extracted) ==
    IF "estimated_damage" \in DOMAIN extracted /\ "estimate_amount" \notin DOMAIN extracted
    THEN Put(extracted, "estimate_amount", extracted["estimated_damage"])
    ELSE IF "estimate_amount" \in DOMAIN extracted
            /\ "estimated_damage" \notin DOMAIN extracted
    THEN Put(extracted, "estimated_damage", extracted["estimate_amount"])
    ELSE extracted

InferClaimTypeNever(extracted) == extracted


\* claim_type inferred from the description when no pattern set it
InferClaimType(extracted) ==
    IF "claim_type" \notin DOMAIN extracted
    THEN Put(extracted, "claim_type",
             Str(_infer_claim_type(Get(extracted, "description", Str("")).v)))
    ELSE extracted

\* extracted['estimated_damage'] = amount; extracted['estimate_amount'] = amount
PutAmounts(extracted, amount) ==
    Put(Put(extracted, "estimated_damage", amount), "estimate_amount", amount)

\* if 'estimated_damage' not in extracted or not extracted['estimated_damage']: the
\* amount of the match, when there is a match
TakeAmount(extracted, full_text, amount_match) ==
    IF ("estimated_damage" \notin DOMAIN extracted
        \/ ~Truthy(extracted["estimated_damage"])) /\ amount_match.ok
    THEN PutAmounts(extracted, _parse_amount(Group(full_text, amount_match)))
    ELSE extracted

AmountFallbackNoDollar(extracted, full_text) ==
    TakeAmount(extracted, full_text,
               Search(full_text, <<Open, Plus(In(Digits \cup {","})),
                                   Opt(In({"."})), Star(Digit), Close>>))

\* the first dollar amount of the text taken when estimated_damage is not set
AmountFallback(extracted, full_text) ==
    TakeAmount(extracted, full_text,
               Search(full_text, <<Lit("$"), Open, Plus(In(Digits \cup {","})),
                                   Opt(In({"."})), Star(Digit), Close>>))

\* extracted[key] = value.strip() for every str value
StripValues(extracted) ==
    [x \in DOMAIN extracted |->
        IF extracted[x].k = "str" THEN Str(Strip(extracted[x].v)) ELSE extracted[x]]

_post_process_fields(extracted, full_text) ==
    StripValues(
        Update(Update(AmountFallback(InferClaimType(SyncAmounts(extracted)), full_text),
                      _extract_vehicle_info(full_text)),
               _extract_contact_info(full_text)))

\* the patterns and the post-processing, both on the normalized text
ExtractFrom(normalized) ==
    _post_process_fields(ExtractFields(normalized, FIELDS, EmptyDict), normalized)

extract_all_fields(document_text) == ExtractFrom(_normalize_text(document_text))

-----------------------------------------------------------------------------
(* src/src/field_extractor.py: missing-field detector *)

RECURSIVE MissingOfAbsentOnly(_, _)
MissingOfAbsentOnly(required, extracted_fields) ==
    IF required = <<>> THEN <<>>
    ELSE (IF Head(required) \notin DOMAIN extracted_fields
          THEN <<Head(required)>> ELSE <<>>)
         \o MissingOfAbsentOnly(Tail(required), extracted_fields)

\* for field in required: if field not in extracted_fields or not
\* extracted_fields.get(field): missing.append(field)
RECURSIVE MissingOf(_, _)
MissingOf(required, extracted_fields) ==
    IF required = <<>> THEN <<>>
    ELSE (IF Head(required) \notin DOMAIN extracted_fields
             \/ ~Truthy(extracted_fields[Head(required)])
          THEN <<Head(required)>> ELSE <<>>)
         \o MissingOf(Tail(required), extracted_fields)

\* the missing fields with estimated_damage left out of the required ones
identify_missing_fields_without_damage(extracted_fields) ==
    MissingOf(SelectSeq(REQUIRED_FIELDS, LAMBDA f : f # "estimated_damage"), extracted_fields)

\* identify_missing_fields(extracted_fields) over config.REQUIRED_FIELDS
identify_missing_fields(extracted_fields) == MissingOf(REQUIRED_FIELDS, extracted_fields)

-----------------------------------------------------------------------------
(* Inputs of the routing engine *)

\* longest description, in fragments
MaxFragments == 2

DescFragments ==
    { "Minor scratch",
      "STAGED, a Fraud",
      "I believe he lied",
      "Neck injury, whiplash, hurt, pain",
      "Hit and run, truck, car, car before" }

RECURSIVE FragmentSeqs(_)
FragmentSeqs(n) ==
    IF n = 0 THEN {<<>>}
    ELSE FragmentSeqs(n - 1)
         \cup {Append(q, f) : q \in {r \in FragmentSeqs(n - 1) : Len(r) = n - 1},
                              f \in DescFragments}

Descriptions == {Join(" ", q) : q \in FragmentSeqs(MaxFragments)}

DamageAmounts ==
    { Num(0 - 100), Num(0), Num(1), Num(FAST_TRACK_THRESHOLD - 1),
      Num(FAST_TRACK_THRESHOLD), Num(10000000) }

ClaimTypes == { Str("injury"), Str("vehicle_damage") }

\* the dicts that hold any of the listed keys, each with a value of its own set
RECURSIVE Dicts(_, _)
Dicts(keys, choice) ==
    IF keys = <<>> THEN {EmptyDict}
    ELSE LET rest == Dicts(Tail(keys), choice)
         IN rest \cup {Put(d, Head(keys), val) : d \in rest, val \in choice[Head(keys)]}

\* estimate_amount is drawn only where estimated_damage is absent
RouteFields ==
    LET choice == [description |-> {Str(d) : d \in Descriptions},
                   estimated_damage |-> DamageAmounts,
                   estimate_amount |-> {Num(800000)},
                   claim_type |-> ClaimTypes]
    IN Dicts(<<"description", "estimated_damage", "claim_type">>, choice)
       \cup {Put(d, "estimate_amount", amount) :
                d \in Dicts(<<"description", "claim_type">>, choice),
                amount \in choice["estimate_amount"]}

MissingLists ==
    { <<>>,
      <<"location">>,
      <<"date_of_loss", "location", "description", "estimate_amount", "claim_type">> }

-----------------------------------------------------------------------------
(* src/src/routing_engine.py: validate_extracted_data *)

\* the $1M above which a damage amount draws a warning, in hundredths
HIGH_DAMAGE == 1000000 * 100

\* the shortest description that draws no warning
MIN_DESCRIPTION == 10

AllDigits(s) == s # "" /\ \A i \in 1..Len(s) : Chr(s, i) \in Digits

\* datetime.strptime(date_str, '%Y-%m-%d') as the number yyyymmdd: four digits of
\* year, one or two of month and of day, a date of the calendar; 0 stands for the
\* ValueError of any other string
IsoOrdinal(date_str) ==
    IF Len(date_str) < 8 \/ Len(date_str) > 10 THEN 0
    ELSE LET dash == IF Chr(date_str, 7) = "-" THEN 7 ELSE 8
             year == SubSeq(date_str, 1, 4)
             month == SubSeq(date_str, 6, dash - 1)
             day == SubSeq(date_str, dash + 1, Len(date_str))
         IN IF /\ AllDigits(year) /\ AllDigits(month) /\ AllDigits(day)
               /\ Chr(date_str, 5) = "-" /\ Chr(date_str, dash) = "-"
               /\ Len(day) <= 2
               /\ ValidDate(DigitsValue(year), DigitsValue(month), DigitsValue(day))
            THEN DigitsValue(year) * 10000 + DigitsValue(month) * 100 + DigitsValue(day)
            ELSE 0

\* damage > 1000000, len(description) and description.lower() raise TypeError for
\* a damage that is no number and a description that is no str
ValidationRaises(extracted_fields) ==
    \/ Get(extracted_fields, "estimated_damage", Num(0)).k # "num"
    \/ Get(extracted_fields, "description", Str("")).k # "str"

\* the validation with a date of loss on the day itself taken as a future date
validate_extracted_data_today_is_future(extracted_fields, today) ==
    LET damage == Get(extracted_fields, "estimated_damage", Num(0)).v
        date_str == Get(extracted_fields, "date_of_loss", Str(""))
        description == Get(extracted_fields, "description", Str("")).v
        claim_type == Get(extracted_fields, "claim_type", Str(""))
    IN [warnings |->
            (IF damage > HIGH_DAMAGE
             THEN <<"Unusually high damage amount: $" \o Fmt2f(damage)>> ELSE <<>>)
            \o (IF Len(description) < MIN_DESCRIPTION
                THEN <<"Description is very short, may be incomplete">> ELSE <<>>),
        errors |->
            IF /\ Truthy(date_str) /\ date_str.k = "str"
               /\ IsoOrdinal(date_str.v) >= IsoOrdinal(today)
            THEN <<"Date of loss is in the future: " \o date_str.v>> ELSE <<>>,
        inconsistencies |->
            IF claim_type = Str("injury") /\ ~Contains(StrLower(description), "injury")
            THEN <<"Claim type is 'injury' but description doesn't mention injuries">>
            ELSE <<>>]


\* validate_extracted_data(extracted_fields) on the day today, datetime.now() as
\* '%Y-%m-%d'
validate_extracted_data(extracted_fields, today) ==
    LET damage == Get(extracted_fields, "estimated_damage", Num(0)).v
        date_str == Get(extracted_fields, "date_of_loss", Str(""))
        description == Get(extracted_fields, "description", Str("")).v
        claim_type == Get(extracted_fields, "claim_type", Str(""))
    IN [warnings |->
            (IF damage > HIGH_DAMAGE
             THEN <<"Unusually high damage amount: $" \o Fmt2f(damage)>> ELSE <<>>)
            \o (IF Len(description) < MIN_DESCRIPTION
                THEN <<"Description is very short, may be incomplete">> ELSE <<>>),
        errors |->
            IF /\ Truthy(date_str) /\ date_str.k = "str"
               /\ IsoOrdinal(date_str.v) > IsoOrdinal(today)
            THEN <<"Date of loss is in the future: " \o date_str.v>> ELSE <<>>,
        inconsistencies |->
            IF claim_type = Str("injury") /\ ~Contains(StrLower(description), "injury")
            THEN <<"Claim type is 'injury' but description doesn't mention injuries">>
            ELSE <<>>]

-----------------------------------------------------------------------------
(* src/src/document_loader.py: DocumentLoader._clean_text *)

\* the keys of replacements that the texts of the model can hold, in the order of
\* the dict; every other key is a full-width character
replacements == << <<"|", "I">>, <<"l", "I">> >>

\* for old, new in replacements.items(): text = text.replace(old, new)
RECURSIVE ReplaceAll(_, _)
ReplaceAll(s, table) ==
    IF table = <<>> THEN s
    ELSE ReplaceAll(StrReplace(s, table[1][1], table[1][2]), Tail(table))

\* the characters below chr(32) other than tab, newline and carriage return
ControlChars == {"\f"}

\* ''.join(char for char in text if ord(char) >= 32 or ord(char) in [9, 10, 13])
DropControl(s) == Concat([i \in 1..Len(s) |-> IF Chr(s, i) \in ControlChars THEN "" ELSE Chr(s, i)])

_clean_text(raw) ==
    IF raw = "" THEN ""
    ELSE Strip(DropControl(ReplaceAll(CollapseSpace(raw), replacements)))

-----------------------------------------------------------------------------
(* src/src/acord_parser.py: ACORDParser, a FieldExtractor with patterns of its own *)

\* re.sub(r' {2,}', '  ', text)
CollapseToDouble(s) ==
    Concat([i \in 1..Len(s) |->
               IF i > 2 /\ SubSeq(s, i - 2, i) = "   " THEN "" ELSE Chr(s, i)])

\* the keys of _clean_acord_text's replacements that the texts of the model can
\* hold, in the order of the dict
acord_replacements == << <<"l", "I">>, <<"|", "I">> >>

standardizations ==
    << <<"POLICY NO", "POLICY NUMBER">>,
       <<"POLICY#", "POLICY NUMBER">>,
       <<"POL NO", "POLICY NUMBER">>,
       <<"VEHICLE ID NUMBER", "V.I.N.">>,
       <<"VEHICLE ID", "V.I.N.">>,
       <<"ESTIMATED DAMAGES", "ESTIMATE AMOUNT">>,
       <<"LOSS DATE", "DATE OF LOSS">>,
       <<"INSUREDS NAME", "NAME OF INSURED">>,
       <<"NAIC NO", "NAIC CODE">> >>

_clean_acord_text(raw) ==
    IF raw = "" THEN ""
    ELSE ReplaceAll(ReplaceAll(CollapseToDouble(raw), acord_replacements), standardizations)

\* ([A-Z0-9\-]+)
AcordPolicyValue == << Open, Plus(In(Letters \cup Digits \cup {"-"})), Close >>

\* ([0-9]{1,2}/[0-9]{1,2}/[0-9]{2,4})
AcordDate ==
    << Open, Rep(Digit, 1, 2, FALSE), Lit("/"), Rep(Digit, 1, 2, FALSE), Lit("/"),
       Rep(Digit, 2, 4, FALSE), Close >>

\* DATE\s*OF\s*LOSS
DateOfLoss == << Lit("DATE"), Star(Ws), Lit("OF"), Star(Ws), Lit("LOSS") >>

\* ([A-Z0-9]{17})
VinValue == << Open, Rep(Alnum, 17, 17, FALSE), Close >>

ACORD_FIELDS ==
    << "policy_number", "policyholder_name", "date_of_loss", "time_of_loss", "location",
       "description", "estimate_amount", "vin", "make", "model", "year", "plate_number",
       "carrier", "naic_code" >>

\* searched by _extract_with_patterns, so with re.IGNORECASE | re.MULTILINE
ACORD_PATTERNS ==
    [policy_number |->
       << <<Lit("POLICY"), Star(Ws), Lit("NUMBER"), Star(Ws)>> \o AcordPolicyValue,
          <<Lit("POLICY"), Star(Ws), Lit("#"), Star(Ws)>> \o AcordPolicyValue,
          <<Lit("NAIC"), Star(Ws), Lit("CODE"), LazyStar(Dot), Lit("POLICY"), Star(Ws),
            Lit("NUMBER"), Star(Ws)>> \o AcordPolicyValue >>,
     policyholder_name |->
       << << Lit("NAME"), Star(Ws), Lit("OF"), Star(Ws), Lit("INSURED"), Star(Ws),
             Alt(<< <<Lit("(First,"), Star(Ws), Lit("Middle,"), Star(Ws), Lit("Last)")>> >>,
                 0),
             Star(Ws), Open, One(Letter), LazyPlus(In(Letters \cup Space \cup {",", "."})),
             Ahead(<< <<Rep(Ws, 2, 0 - 1, FALSE)>>, <<Lit("\n")>>, <<Lit("INSURED")>>,
                      <<Lit("CONTACT")>> >>),
             Close >>,
          << Lit("INSURED"), Star(Ws), Lit("NAME"), Star(ColonWs), Open,
             LazyPlus(In(Letters \cup Space \cup {",", "."})), Close,
             Ahead(<< <<Rep(Ws, 2, 0 - 1, FALSE)>>, <<Lit("\n")>> >>) >> >>,
     date_of_loss |->
       << DateOfLoss \o <<Star(Ws), Lit("AND"), Star(Ws), Lit("TIME"), Star(Ws)>>
             \o AcordDate,
          DateOfLoss \o <<Star(ColonWs)>> \o AcordDate >>,
     time_of_loss |->
       << DateOfLoss \o <<Star(Ws), Lit("AND"), Star(Ws), Lit("TIME"), LazyStar(Dot)>>
             \o ClockTime,
          <<Lit("TIME"), Star(Ws)>> \o ClockTime >>,
     location |->
       << << Lit("LOCATION"), Star(Ws), Lit("OF"), Star(Ws), Lit("LOSS"), Star(Ws),
             Open, LazyStar(Dot), Close,
             Ahead(<< <<Lit("POLICE"), Star(Ws), Lit("OR"), Star(Ws), Lit("FIRE")>>,
                      <<Lit("DESCRIBE"), Star(Ws), Lit("LOCATION")>> >>) >>,
          << Lit("STREET"), Star(ColonWs), Open, LazyStar(Dot), Close,
             Ahead(<< <<Lit("\n")>>, <<Lit("CITY")>> >>) >>,
          << Lit("CITY,"), Star(Ws), Lit("STATE,"), Star(Ws), Lit("ZIP"), Star(ColonWs),
             Open, LazyStar(Dot), Close,
             Ahead(<< <<Lit("\n")>>, <<Lit("REPORT")>> >>) >> >>,
     description |->
       << << Lit("DESCRIPTION"), Star(Ws), Lit("OF"), Star(Ws), Lit("ACCIDENT"), Star(Ws),
             Open, LazyStar(Dot), Close,
             Ahead(<< <<Lit("1."), Star(Ws), Lit("WAS"), Star(Ws), Lit("A"), Star(Ws),
                        Lit("STANDARD")>>,
                      <<Lit("Page"), Star(Ws), Plus(Digit)>>,
                      <<Lit("ACORD")>> >>) >>,
          << Lit("DESCRIBE"), Star(Ws), Lit("DAMAGE"), Star(Ws), Open, LazyStar(Dot), Close,
             Ahead(<< <<Lit("\n\n")>>,
                      <<Lit("ESTIMATE"), Star(Ws), Lit("AMOUNT")>> >>) >> >>,
     estimate_amount |->
       << <<Lit("ESTIMATE"), Star(Ws), Lit("AMOUNT"), Star(ColonWs)>> \o AmountValue,
          <<Lit("Damage"), Star(Ws), Lit("Estimate"), Star(ColonWs)>> \o AmountValue >>,
     vin |->
       << <<Lit("V.I.N."), Star(Ws), Star(ColonWs)>> \o VinValue,
          <<Lit("VIN"), Star(ColonWs)>> \o VinValue >>,
     make |->
       << << Lit("MAKE"), Star(ColonWs), Open, Plus(In(Letters \cup Space)), Close,
             Ahead(<< <<Lit("\n")>>, <<Lit("MODEL")>>, <<Lit("BODY")>> >>) >> >>,
     model |->
       << << Lit("MODEL"), Star(ColonWs), Open, Plus(In(Letters \cup Digits \cup Space)),
             Close, Ahead(<< <<Lit("\n")>>, <<Lit("V.I.N.")>> >>) >> >>,
     year |->
       << <<Lit("YEAR"), Star(Ws), Open, Rep(Digit, 4, 4, FALSE), Close>> >>,
     plate_number |->
       << << Lit("PLATE"), Star(Ws), Lit("NUMBER"), Star(Ws), Open,
             Plus(In(Letters \cup Digits \cup Space \cup {"-"})), Close,
             Ahead(<< <<Lit("\n")>>, <<Lit("STATE")>> >>) >> >>,
     carrier |->
       << << Lit("CARRIER"), Star(Ws), Open, Plus(In(Letters \cup Space)), Close,
             Ahead(<< <<Lit("\n")>>, <<Lit("NAIC")>> >>) >> >>,
     naic_code |->
       << <<Lit("NAIC"), Star(Ws), Lit("CODE"), Star(Ws), Open, Plus(Digit), Close>> >>]

\* for field, patterns in ACORD_PATTERNS.items(): value = ...; if value:
\* results[field] = value
RECURSIVE ExtractAcordPatterns(_, _, _)
ExtractAcordPatterns(s, names, results) ==
    IF names = <<>> THEN results
    ELSE LET value == _extract_with_patterns(s, ACORD_PATTERNS[Head(names)], Head(names))
         IN ExtractAcordPatterns(s, Tail(names),
                                 IF Truthy(value) THEN Put(results, Head(names), value)
                                 ELSE results)

\* the three patterns of _find_vehicle_section, searched with re.IGNORECASE |
\* re.DOTALL
ACORD_SECTION_PATTERNS ==
    << <<Lit("VEH"), Star(Ws), Lit("#"), LazyStar(DotAll), Lit("DESCRIBE DAMAGE")>>,
       <<Lit("VEHICLE INFORMATION"), LazyStar(DotAll), Lit("DESCRIBE DAMAGE")>>,
       <<Lit("YEAR"), LazyStar(DotAll), Lit("DESCRIBE DAMAGE")>> >>

\* match.group(0) of the first pattern that matches, None when none does
_find_vehicle_section(s) ==
    LET found == VehicleSection(s, ACORD_SECTION_PATTERNS)
    IN IF found.ok THEN Str(Whole(s, found)) ELSE None

\* (?=\s{2,}|\n|...) of the table patterns, which are searched with no flag
TableAhead(word) ==
    Ahead(<< <<Rep(Ws, 2, 0 - 1, FALSE)>>, <<LitCase("\n")>>, <<LitCase(word)>> >>)

\* the five patterns of _extract_from_acord_tables, in the order they are searched
TABLE_FIELDS == << "year", "make", "model", "vin", "plate_number" >>

TABLE_PATTERNS ==
    [year |-> <<LitCase("YEAR"), Star(Ws), Open, Rep(Digit, 4, 4, FALSE), Close>>,
     make |->
       << LitCase("MAKE"), Star(ColonWs), Open, LazyPlus(In(Letters \cup Space)), Close,
          Ahead(<< <<Rep(Ws, 2, 0 - 1, FALSE)>>, <<LitCase("\n")>>, <<LitCase("MODEL")>>,
                   <<LitCase("BODY")>> >>) >>,
     model |->
       << LitCase("MODEL"), Star(ColonWs), Open,
          LazyPlus(In(Letters \cup Digits \cup Space)), Close, TableAhead("V.I.N.") >>,
     vin |->
       << LitCase("V.I.N."), Star(Ws), Star(ColonWs), Open,
          Rep(In(UpperChars \cup Digits), 17, 17, FALSE), Close >>,
     plate_number |->
       << LitCase("PLATE"), Star(Ws), LitCase("NUMBER"), Star(Ws), Open,
          LazyPlus(In(UpperChars \cup Digits \cup Space \cup {"-"})), Close,
          TableAhead("STATE") >>]

\* if match: table_data[name] = match.group(1), stripped for make, model and plate
RECURSIVE TableData(_, _, _)
TableData(section, names, table_data) ==
    IF names = <<>> THEN table_data
    ELSE LET m == Search(section, TABLE_PATTERNS[Head(names)])
             value == IF Head(names) \in {"year", "vin"} THEN Group(section, m)
                      ELSE Strip(Group(section, m))
         IN TableData(section, Tail(names),
                      IF m.ok THEN Put(table_data, Head(names), Str(value)) ELSE table_data)

_extract_from_acord_tables(s) ==
    LET vehicle_section == _find_vehicle_section(s)
    IN IF Truthy(vehicle_section) THEN TableData(vehicle_section.v, TABLE_FIELDS, EmptyDict)
       ELSE EmptyDict

ACORD_INJURY_KEYWORDS == {"injury", "injured", "hurt", "pain", "hospital", "ambulance"}

\* ([0-9,]+\.?[0-9]*)
AmountGroup == << Open, Plus(In(Digits \cup {","})), Opt(In({"."})), Star(Digit), Close >>

\* the alternative estimate patterns, searched with re.IGNORECASE
ACORD_ESTIMATE_PATTERNS ==
    << <<Lit("$")>> \o AmountGroup
          \o <<Star(Ws), Alt(<< <<Lit("estimate")>>, <<Lit("damage")>>, <<Lit("amount")>> >>, 1)>>,
       <<Lit("Amount"), Star(ColonWs)>> \o AmountValue,
       AmountGroup \o <<Star(Ws), Lit("dollars")>> >>

\* for pattern in patterns: match = re.search(...); if match: ...; break
RECURSIVE FirstAmount(_, _)
FirstAmount(s, patterns) ==
    IF patterns = <<>> THEN None
    ELSE LET m == Search(s, Head(patterns))
         IN IF m.ok THEN _parse_amount(Group(s, m)) ELSE FirstAmount(s, Tail(patterns))

\* ESTIMATE AMOUNT[:\s]*(.*?)(?:\n|$), searched with re.IGNORECASE
ESTIMATE_SECTION ==
    << Lit("ESTIMATE AMOUNT"), Star(ColonWs), Open, LazyStar(Dot), Close,
       Alt(<< <<Lit("\n")>>, <<Dollar>> >>, 1) >>

\* the claim type: 'vehicle_damage' unless set, 'injury' for a description with an
\* injury keyword
AcordClaimType(extracted) ==
    LET typed == IF "claim_type" \in DOMAIN extracted THEN extracted
                 ELSE Put(extracted, "claim_type", Str("vehicle_damage"))
    IN IF "description" \in DOMAIN extracted
          /\ AnyWord(StrLower(extracted["description"].v), ACORD_INJURY_KEYWORDS)
       THEN Put(typed, "claim_type", Str("injury")) ELSE typed

\* estimate_amount from the alternative patterns when it is absent or falsy
AcordAlternativeEstimate(extracted, full_text) ==
    IF ("estimate_amount" \notin DOMAIN extracted \/ ~Truthy(extracted["estimate_amount"]))
       /\ FirstAmount(full_text, ACORD_ESTIMATE_PATTERNS) # None
    THEN Put(extracted, "estimate_amount", FirstAmount(full_text, ACORD_ESTIMATE_PATTERNS))
    ELSE extracted

\* estimate_amount from the ESTIMATE AMOUNT field when it is still absent
AcordEstimateSection(extracted, full_text) ==
    LET estimate_section == Search(full_text, ESTIMATE_SECTION)
        value == Strip(Group(full_text, estimate_section))
    IN IF "estimate_amount" \notin DOMAIN extracted /\ estimate_section.ok /\ value # ""
       THEN Put(extracted, "estimate_amount", _parse_amount(value))
       ELSE extracted

\* the post-processing with the amount copied to estimated_damage, as
\* FieldExtractor._post_process_fields copies it
_post_process_acord_fields_synced(extracted, full_text) ==
    SyncAmounts(AcordEstimateSection(
        AcordAlternativeEstimate(AcordClaimType(extracted), full_text), full_text))


_post_process_acord_fields(extracted, full_text) ==
    AcordEstimateSection(AcordAlternativeEstimate(AcordClaimType(extracted), full_text),
                         full_text)

extract_acord_fields(document_text) ==
    LET cleaned == _clean_acord_text(document_text)
    IN _post_process_acord_fields(
           Update(ExtractAcordPatterns(cleaned, ACORD_FIELDS, EmptyDict),
                  _extract_from_acord_tables(cleaned)),
           cleaned)

-----------------------------------------------------------------------------

(* Steps 2, 3 and 5 of FNOLAgent.process_document, src/src/main.py, each a call of
   its function for a text that is no ACORD form *)

\* step 2: extracted_fields = extract_all_fields(text)
ExtractAllFields ==
    /\ pc = "extract"
    /\ fields' = extract_all_fields(text)
    /\ pc' = "missing"
    /\ UNCHANGED <<text, missing, route, reasoning, result, status, validation>>
    /\ UNCHANGED agent

\* step 3: missing_fields = identify_missing_fields(extracted_fields)
IdentifyMissing ==
    /\ pc = "missing"
    /\ missing' = identify_missing_fields(fields)
    /\ pc' = "route"
    /\ UNCHANGED <<text, fields, route, reasoning, result, status, validation>>
    /\ UNCHANGED agent

\* step 5: route, reasoning = determine_route(extracted_fields, missing_fields)
DetermineRoute ==
    /\ pc = "route"
    /\ LET r == determine_route(fields, missing)
       IN /\ route' = r.route
          /\ reasoning' = r.reasoning
    /\ pc' = "done"
    /\ UNCHANGED <<text, fields, missing, result, status, validation>>
    /\ UNCHANGED agent

-----------------------------------------------------------------------------
(* FNOLAgent.process_document on a .txt file, whole: text starts as the content of
   the file, and every step of the try block follows, with the except block for
   the exceptions the steps raise *)

\* self.stats of a new agent, without the average time
NewStats == [processed |-> 0, errors |-> 0, routes |-> EmptyDict]

\* os.path.basename: what follows the last '/'
Basename(file_path) ==
    LET slashes == {i \in 1..Len(file_path) : SubSeq(file_path, i, i) = "/"}
    IN IF slashes = {} THEN file_path
       ELSE SubSeq(file_path, (CHOOSE i \in slashes : \A j \in slashes : j <= i) + 1,
                   Len(file_path))

\* the result process_document starts with, without its two times; error stands
\* for the key the except block adds, "" while there is none
NewResult(file_path) ==
    [document |-> Basename(file_path),
     status |-> "success",
     error |-> "",
     extractedFields |-> EmptyDict,
     missingFields |-> <<>>,
     validation |-> EmptyDict,
     recommendedRoute |-> "",
     reasoning |-> ""]

\* the except block with the route of the completeness rule
ProcessingErrorManualReview(message) ==
    /\ status' = "error"
    /\ route' = "Manual Review"
    /\ reasoning' = "Processing error: " \o message
    /\ result' = [NewResult(paths[calls]) EXCEPT !.status = "error",
                                                !.error = message,
                                                !.recommendedRoute = "Manual Review",
                                                !.reasoning = "Processing error: " \o message]
    /\ stats' = [stats EXCEPT !.errors = @ + 1]
    /\ pc' = "done"

\* the except block: result['status'] = 'error', the message, the route and the
\* reasoning of an error, and one more error in the statistics
ProcessingError(message) ==
    /\ status' = "error"
    /\ route' = "Error - Manual Review"
    /\ reasoning' = "Processing error: " \o message
    /\ result' = [NewResult(paths[calls]) EXCEPT !.status = "error",
                                                !.error = message,
                                                !.recommendedRoute = "Error - Manual Review",
                                                !.reasoning = "Processing error: " \o message]
    /\ stats' = [stats EXCEPT !.errors = @ + 1]
    /\ pc' = "done"

FILE_PATH == "claim.txt"

\* the agent as __init__ leaves it, in its first call, on FILE_PATH
FirstCall ==
    /\ stats = NewStats
    /\ calls = 1
    /\ paths = <<FILE_PATH>>
    /\ batch_results = <<>>

\* str.endswith
EndsWith(s, suffix) ==
    /\ Len(s) >= Len(suffix)
    /\ SubSeq(s, Len(s) - Len(suffix) + 1, Len(s)) = suffix

\* step 1: document_data = load_document(file_path), whose text _load_txt has
\* cleaned; ValueError when there is no text
LoadDocument ==
    /\ pc = "load"
    /\ LET file_path == paths[calls]
       IN IF file_path = ""
          THEN ProcessingError("File path cannot be empty") /\ UNCHANGED text
          ELSE IF ~EndsWith(StrLower(file_path), ".txt")
          THEN /\ ProcessingError("Unsupported file format: " \o file_path)
               /\ UNCHANGED text
          ELSE /\ text' = _clean_text(text)
               /\ IF _clean_text(text) = ""
                  THEN ProcessingError("No text could be extracted from " \o file_path)
                  ELSE /\ pc' = "extract_fields"
                       /\ UNCHANGED <<route, reasoning, status, result, stats>>
    /\ UNCHANGED <<fields, missing, validation, calls, paths, batch_results>>

\* 'ACORD' in text.upper() or 'acord' in text.lower()
IsAcordForm(s) == Contains(StrUpper(s), "ACORD") \/ Contains(StrLower(s), "acord")

\* step 2: the ACORD parser for an ACORD form, extract_all_fields for any other text
ExtractFieldsByForm ==
    /\ pc = "extract_fields"
    /\ fields' = IF IsAcordForm(text) THEN extract_acord_fields(text)
                 ELSE extract_all_fields(text)
    /\ pc' = "identify_missing"
    /\ UNCHANGED <<text, missing, route, reasoning, result, status, validation>>
    /\ UNCHANGED agent

\* step 3: missing_fields = identify_missing_fields(extracted_fields)
IdentifyMissingFields ==
    /\ pc = "identify_missing"
    /\ missing' = identify_missing_fields(fields)
    /\ pc' = "validate"
    /\ UNCHANGED <<text, fields, route, reasoning, result, status, validation>>
    /\ UNCHANGED agent

\* the days datetime.now() can fall on
Todays == {"2024-01-15", "2024-06-30"}

\* str(e) of the TypeError that validate_extracted_data raises
ValidationTypeError(extracted_fields) ==
    LET damage == Get(extracted_fields, "estimated_damage", Num(0))
        description == Get(extracted_fields, "description", Str(""))
        TypeName(val) == IF val.k = "none" THEN "NoneType"
                         ELSE IF val.k = "num" THEN "float" ELSE "str"
    IN IF damage.k # "num"
       THEN "'>' not supported between instances of '" \o TypeName(damage) \o "' and 'int'"
       ELSE "object of type '" \o TypeName(description) \o "' has no len()"

\* step 4 as a gate: a document whose validation found an error loses its date
ValidateExtractedDataGating ==
    /\ pc = "validate"
    /\ \E today \in Todays :
         /\ validation' = validate_extracted_data(fields, today)
         /\ missing' = IF validate_extracted_data(fields, today).errors # <<>>
                       THEN Append(missing, "date_of_loss") ELSE missing
    /\ pc' = "determine_route"
    /\ UNCHANGED <<text, fields, route, reasoning, result, status>>
    /\ UNCHANGED agent


\* step 4: validation_results = validate_extracted_data(extracted_fields)
ValidateExtractedData ==
    /\ pc = "validate"
    /\ IF ValidationRaises(fields)
       THEN ProcessingError(ValidationTypeError(fields)) /\ UNCHANGED validation
       ELSE /\ \E today \in Todays : validation' = validate_extracted_data(fields, today)
            /\ pc' = "determine_route"
            /\ UNCHANGED <<route, reasoning, status, result, stats>>
    /\ UNCHANGED <<text, fields, missing, calls, paths, batch_results>>

\* the statistics with the count of a route set to one whenever it is counted
ProcessedRouteReset(st, r) ==
    [st EXCEPT !.processed = @ + 1, !.routes = Put(@, r, 1)]

\* self.stats after a document with this route: one more processed, one more
\* of the route
Processed(st, r) ==
    [st EXCEPT !.processed = @ + 1,
               !.routes = IF r \in DOMAIN @ THEN Put(@, r, @[r] + 1) ELSE Put(@, r, 1)]

\* step 5: route, reasoning = determine_route(extracted_fields, missing_fields),
\* step 6, which puts the five values in the result, and the statistics
DetermineRouting ==
    /\ pc = "determine_route"
    /\ LET r == determine_route(fields, missing)
       IN /\ route' = r.route
          /\ reasoning' = r.reasoning
          /\ result' = [NewResult(paths[calls]) EXCEPT !.extractedFields = fields,
                                                      !.missingFields = missing,
                                                      !.validation = validation,
                                                      !.recommendedRoute = r.route,
                                                      !.reasoning = r.reasoning]
          /\ stats' = Processed(stats, r.route)
    /\ pc' = "done"
    /\ UNCHANGED <<text, fields, missing, status, validation, calls, paths,
                 batch_results>>

-----------------------------------------------------------------------------
(* determine_route called with any extracted fields and any missing list *)

InitRoute ==
    /\ pc = "route"
    /\ text = ""
    /\ fields \in RouteFields
    /\ missing \in MissingLists
    /\ route = ""
    /\ reasoning = ""
    /\ result = None
    /\ status = "success"
    /\ validation = EmptyDict
    /\ FirstCall

NextRoute == DetermineRoute

SpecRoute == InitRoute /\ [][NextRoute]_vars

-----------------------------------------------------------------------------
(* identify_missing_fields called with any record, then routed as process_document
   does *)

MissingFieldValues ==
    [policy_number |-> {Str("TEST123"), Str(""), None},
     policyholder_name |-> {Str("John Doe"), Str("")},
     date_of_loss |-> {Str("2024-01-01"), None},
     location |-> {Str("Test Location"), Str("")},
     description |-> {Str("Minor scratch"), Str("")},
     estimated_damage |-> {Num(800000), Num(0), None},
     claim_type |-> {Str("vehicle_damage"), Str("")},
     estimate_amount |-> {Num(800000)}]

MissingFieldsInputs == Dicts(REQUIRED_FIELDS \o <<"estimate_amount">>, MissingFieldValues)

InitMissing ==
    /\ pc = "missing"
    /\ text = ""
    /\ fields \in MissingFieldsInputs
    /\ missing = <<>>
    /\ route = ""
    /\ reasoning = ""
    /\ result = None
    /\ status = "success"
    /\ validation = EmptyDict
    /\ FirstCall

NextMissing == IdentifyMissing \/ DetermineRoute

SpecMissing == InitMissing /\ [][NextMissing]_vars

-----------------------------------------------------------------------------
(* process_document from the text handed to extract_all_fields on: extraction,
   missing fields, route *)

\* most lines of a document
MaxLines == 2

DocLines ==
    { "Policy: ABC123",
      "Estimate Amount: $500",
      "Damage Estimate: $900",
      "Fee $0",
      "Description: driver hurt",
      "YEAR 2020 MAKE 4 MODEL X VIN" }

RECURSIVE LineSeqs(_)
LineSeqs(n) ==
    IF n = 0 THEN {<<>>}
    ELSE LineSeqs(n - 1)
         \cup {Append(q, l) : q \in {r \in LineSeqs(n - 1) : Len(r) = n - 1}, l \in DocLines}

\* the minimal-information sample of samples/create_samples.py, as five lines
MinimalInfo ==
    "Policy: ABC123\nName: John Doe\nDate: Last week\nCar got hit.\nEstimate: Unknown"

ScenarioDocuments == {MinimalInfo}

Documents == {Join("\n", q) : q \in LineSeqs(MaxLines)} \cup ScenarioDocuments

InitExtract ==
    /\ pc = "extract"
    /\ text \in Documents
    /\ fields = EmptyDict
    /\ missing = <<>>
    /\ route = ""
    /\ reasoning = ""
    /\ result = None
    /\ status = "success"
    /\ validation = EmptyDict
    /\ FirstCall

NextExtract == ExtractAllFields \/ IdentifyMissing \/ DetermineRoute

SpecExtract == InitExtract /\ [][NextExtract]_vars

-----------------------------------------------------------------------------
(* process_document on the content of a .txt file *)

\* the lines of a file, each ended by a newline
Lines(q) == Concat([i \in 1..Len(q) |-> q[i] \o "\n"])

\* samples/create_samples.py: 'Sample 1: Fast-track claim (minor damage)'
FastTrackSample ==
    Lines(<< "FNOL REPORT - AUTOMOBILE CLAIM",
             "Claim Reference: CL-2024-001",
             "Date Submitted: 2024-02-05",
             "",
             "POLICY INFORMATION:",
             "Policy Number: AUTO-78901234",
             "Policyholder Name: Sarah Johnson",
             "Effective Dates: 01/01/2024 to 01/01/2025",
             "",
             "INCIDENT DETAILS:",
             "Date of Loss: February 1, 2024",
             "Time: 14:45 PM",
             "Location: 456 Oak Avenue, Springfield, IL 62704",
             "Description: Vehicle was side-swiped in parking lot while parked.",
             "Minor damage to driver's side door and mirror. No other vehicles involved.",
             "",
             "ASSET INFORMATION:",
             "Asset Type: Automobile",
             "Vehicle: 2020 Honda Civic",
             "VIN: 2HGFC2F56LH123456",
             "Plate: IL-ABC123",
             "",
             "DAMAGE ASSESSMENT:",
             "Estimated Damage: $8,200",
             "Initial Estimate: $8,200",
             "Attachments: Photos of damage",
             "",
             "INVOLVED PARTIES:",
             "Claimant: Sarah Johnson",
             "Contact: (555) 123-4567, sarah.j@email.com",
             "",
             "OTHER INFORMATION:",
             "Claim Type: Vehicle Damage",
             "Special Instructions: None" >>)

\* samples/create_samples.py: 'Sample 2: Injury claim', an ACORD notice
InjurySample ==
    Lines(<< "ACORD AUTOMOBILE LOSS NOTICE",
             "Form Version: 2016/10",
             "",
             "AGENCY INFORMATION:",
             "Agency: Metro Insurance Services",
             "",
             "POLICY INFORMATION:",
             "Policy Number: HEALTH-456-789",
             "Named Insured: Michael Chen",
             "Policy Period: 12/15/2023 - 12/15/2024",
             "",
             "LOSS INFORMATION:",
             "Date of Loss: January 30, 2024",
             "Time: 09:15 AM",
             "Location: 789 Broadway at 5th Avenue, Metro City",
             "Police Report: MCPD-2024-5678",
             "Description: Multi-vehicle collision at intersection. Insured's vehicle",
             "was struck from behind, pushing it into vehicle in front. Airbags deployed.",
             "Driver complained of neck and back pain. Paramedics transported to",
             "Metro General Hospital for evaluation. X-rays showed minor whiplash.",
             "",
             "VEHICLE INFORMATION:",
             "Year: 2019",
             "Make: Toyota",
             "Model: RAV4",
             "VIN: JTMBFREVXKD123456",
             "Plate: MC-XYZ789",
             "",
             "DAMAGE INFORMATION:",
             "Estimate Amount: $42,000",
             "Describe Damage: Severe front and rear damage, airbags deployed,",
             "frame damage suspected.",
             "",
             "INJURY INFORMATION:",
             "Injured Party: Michael Chen",
             "Extent of Injury: Neck strain, back pain, whiplash",
             "Treatment: Hospital evaluation, prescribed pain medication",
             "",
             "CONTACT INFORMATION:",
             "Phone: (555) 987-6543",
             "Email: mchen@email.com" >>)

\* tests/test_fnol_agent.py: the file of test_end_to_end_processing
EndToEndDocument ==
    Lines(<< "",
             "            FNOL REPORT",
             "            POLICY NUMBER: TEST-2024-001",
             "            NAME OF INSURED: Jane Smith",
             "            DATE OF LOSS: 02/01/2024",
             "            LOCATION: 456 Oak Ave, Springfield",
             "            ESTIMATE AMOUNT: $8,200",
             "            DESCRIPTION: Side mirror damaged in parking lot." >>) \o "            "

\* most lines of a drawn file
MaxFileLines == 2

FileLines ==
    { "ACORD FORM",
      "POLICY NUMBER: TEST-2024-001",
      "DATE OF LOSS: 02/01/2024",
      "ESTIMATE AMOUNT: $8,200",
      "Description: claimant lied about the crash",
      "   " }

RECURSIVE FileLineSeqs(_)
FileLineSeqs(n) ==
    IF n = 0 THEN {<<>>}
    ELSE FileLineSeqs(n - 1)
         \cup {Append(q, l) : q \in {r \in FileLineSeqs(n - 1) : Len(r) = n - 1},
                              l \in FileLines}

SampleFiles == {FastTrackSample, InjurySample, EndToEndDocument, MinimalInfo}

Files == {Lines(q) : q \in FileLineSeqs(MaxFileLines)} \cup SampleFiles

InitProcess ==
    /\ pc = "load"
    /\ text \in Files
    /\ fields = EmptyDict
    /\ missing = <<>>
    /\ route = ""
    /\ reasoning = ""
    /\ result = None
    /\ status = "success"
    /\ validation = EmptyDict
    /\ FirstCall

NextProcess ==
    \/ LoadDocument
    \/ ExtractFieldsByForm
    \/ IdentifyMissingFields
    \/ ValidateExtractedData
    \/ DetermineRouting

SpecProcess == InitProcess /\ [][NextProcess]_vars

-----------------------------------------------------------------------------
(* Properties of the routing engine *)

ROUTES ==
    {"Fast-track", "Standard Processing", "Specialist Queue", "Investigation Flag",
     "Manual Review"}

\* the description holds a fraud keyword, compared without regard to letter case
HasFraudKeyword(d) ==
    LET folded == StrLower(d)
    IN \E n \in 1..Len(FRAUD_KEYWORDS) : \E i \in 1..Len(d) :
           /\ i + Len(FRAUD_KEYWORDS[n]) - 1 <= Len(d)
           /\ SubSeq(folded, i, i + Len(FRAUD_KEYWORDS[n]) - 1) = FRAUD_KEYWORDS[n]

DescriptionOf(d) == IF "description" \in DOMAIN d THEN d["description"].v ELSE ""

\* rules 1 to 3 do not apply to the call
NoEarlierRule ==
    /\ missing = <<>>
    /\ ~HasFraudKeyword(DescriptionOf(fields))
    /\ ~("claim_type" \in DOMAIN fields /\ fields["claim_type"] = Str("injury"))

LaterRuleFragments ==
    {"Fraud indicators detected", "Injury claim", "Estimated damage", "Damage amount",
     "Multiple vehicles", "Hit-and-run", "Commercial vehicle", "previous claims"}

\* C1: determine_route returns one of the five routes and a non-empty reasoning,
\* for every extracted-fields mapping and every missing-fields list.
C1_RouteDefined == pc = "done" => route \in ROUTES /\ reasoning # ""

C1_Witness ==
    /\ pc = "done" /\ missing = <<>> /\ fields = EmptyDict
    /\ route = "Manual Review"

\* C2: a non-empty missing-fields list gives Manual Review whatever the fields
\* hold, and the reasoning holds the completeness fragment only.
C2_MissingGivesManualReview ==
    pc = "done" /\ missing # <<>> =>
        /\ route = "Manual Review"
        /\ StartsAt(reasoning, 1, "Missing required fields: ")
        /\ \A f \in LaterRuleFragments : ~Contains(reasoning, f)

C2_Witness ==
    /\ pc = "done" /\ missing # <<>>
    /\ HasFraudKeyword(DescriptionOf(fields))
    /\ "claim_type" \in DOMAIN fields /\ fields["claim_type"] = Str("injury")
    /\ "estimated_damage" \in DOMAIN fields /\ fields["estimated_damage"].v > 0
    /\ route = "Manual Review"

\* C3: with an empty missing list, a fraud keyword in the description (any letter
\* case, as a substring) gives Investigation Flag for every damage amount and
\* claim type.
C3_FraudGivesInvestigation ==
    pc = "done" /\ missing = <<>> /\ HasFraudKeyword(DescriptionOf(fields)) =>
        route = "Investigation Flag"

C3_Witness ==
    /\ pc = "done" /\ missing = <<>>
    /\ DescriptionOf(fields) = "STAGED, a Fraud"
    /\ "claim_type" \in DOMAIN fields /\ fields["claim_type"] = Str("injury")
    /\ route = "Investigation Flag"

\* C4: with an empty missing list and no fraud keyword, claim type injury gives
\* Specialist Queue for every damage amount, present or absent.
C4_InjuryGivesSpecialist ==
    /\ pc = "done" /\ missing = <<>>
    /\ ~HasFraudKeyword(DescriptionOf(fields))
    /\ "claim_type" \in DOMAIN fields /\ fields["claim_type"] = Str("injury")
    => route = "Specialist Queue"

C4_Witness ==
    /\ pc = "done" /\ missing = <<>> /\ route = "Specialist Queue"
    /\ "estimated_damage" \in DOMAIN fields
    /\ fields["estimated_damage"].v >= FAST_TRACK_THRESHOLD

\* C5: when no earlier rule fires and estimated_damage is positive, the route is
\* Fast-track exactly when the amount is below 25,000 and Standard Processing
\* otherwise.
C5_DamageThreshold ==
    /\ pc = "done" /\ NoEarlierRule
    /\ "estimated_damage" \in DOMAIN fields /\ fields["estimated_damage"].v > 0
    => /\ route \in {"Fast-track", "Standard Processing"}
       /\ route = "Fast-track" <=> fields["estimated_damage"].v < 25000 * 100

C5_Witness ==
    /\ pc = "done" /\ NoEarlierRule
    /\ "estimated_damage" \in DOMAIN fields
    /\ fields["estimated_damage"].v = 25000 * 100
    /\ route = "Standard Processing"

\* C6: a positive amount below 25,000 under the key estimate_amount, with no
\* estimated_damage key and no earlier rule firing, gives Fast-track with a
\* reasoning that says 'below'.
C6_EstimateAmountFastTrack ==
    /\ pc = "done" /\ NoEarlierRule
    /\ "estimated_damage" \notin DOMAIN fields
    /\ "estimate_amount" \in DOMAIN fields
    /\ fields["estimate_amount"].v > 0
    /\ fields["estimate_amount"].v < FAST_TRACK_THRESHOLD
    => route = "Fast-track" /\ Contains(reasoning, "below")

-----------------------------------------------------------------------------
(* Properties of the missing-field detector *)

Elems(list) == {list[i] : i \in 1..Len(list)}

\* C7: for a record holding only policy_number, policyholder_name and
\* date_of_loss, the missing list contains location, description, estimate_amount
\* and claim_type.
C7_MissingNamesEstimateAmount ==
    /\ pc = "route"
    /\ DOMAIN fields = {"policy_number", "policyholder_name", "date_of_loss"}
    /\ \A x \in DOMAIN fields : Truthy(fields[x])
    => {"location", "description", "estimate_amount", "claim_type"} \subseteq Elems(missing)

FalsyValues == {Str(""), Num(0), None}

RequiredIndex(f) == CHOOSE i \in 1..Len(REQUIRED_FIELDS) : REQUIRED_FIELDS[i] = f

\* the list names exactly the required fields that are absent or falsy in d, each
\* once, in the order of the required-field vocabulary
MissingExactly(list, d) ==
    /\ Elems(list) = {f \in Elems(REQUIRED_FIELDS) : f \notin DOMAIN d \/ d[f] \in FalsyValues}
    /\ \A i, j \in 1..Len(list) : i < j => RequiredIndex(list[i]) < RequiredIndex(list[j])

-----------------------------------------------------------------------------
(* Properties of extract_all_fields *)

\* C9: in every result of extract_all_fields, when estimated_damage or
\* estimate_amount is present both are present and equal, also when each was
\* matched by its own pattern list.
C9_AmountsAgree ==
    pc # "extract" /\ ("estimated_damage" \in DOMAIN fields \/ "estimate_amount" \in DOMAIN fields)
    => /\ "estimated_damage" \in DOMAIN fields
       /\ "estimate_amount" \in DOMAIN fields
       /\ fields["estimated_damage"] = fields["estimate_amount"]

\* C10: in every mapping extract_all_fields returns, no key is present with an
\* empty or falsy value.
C10_NoFalsyValue ==
    pc # "extract" => \A x \in DOMAIN fields : fields[x] \notin FalsyValues

\* C11 as stated: for the empty text the normalizer returns the empty string,
\* extract_all_fields returns an empty mapping, identify_missing_fields reports all
\* seven required fields, and determine_route returns Manual Review.
C11_EmptyTextEmptyResult ==
    pc = "done" /\ text = ""
    => /\ _normalize_text(text) = ""
       /\ fields = EmptyDict
       /\ missing = REQUIRED_FIELDS
       /\ route = "Manual Review"

\* C11 as amended: for the empty text the normalizer returns the empty string,
\* extract_all_fields returns the mapping that holds only the inferred claim_type
\* "property_damage", identify_missing_fields reports the six other required
\* fields in declared order, and determine_route returns Manual Review.
C11_EmptyTextDefaultClaimType ==
    pc = "done" /\ text = ""
    => /\ _normalize_text(text) = ""
       /\ fields = Put(EmptyDict, "claim_type", Str("property_damage"))
       /\ missing = <<"policy_number", "policyholder_name", "date_of_loss", "location",
                      "description", "estimated_damage">>
       /\ route = "Manual Review"

C11_Witness == pc = "done" /\ text = "" /\ route = "Manual Review" /\ Len(missing) = 6

-----------------------------------------------------------------------------
(* _parse_amount called on its own with any short string *)

\* most characters of an amount string
MaxAmountLen == 3

AmountChars == {"0", "5", ".", ",", "$", "-", "x"}

RECURSIVE StringsOver(_, _)
StringsOver(chars, n) ==
    IF n = 0 THEN {""}
    ELSE StringsOver(chars, n - 1)
         \cup {s \o c : s \in {r \in StringsOver(chars, n - 1) : Len(r) = n - 1}, c \in chars}

\* the digits and points of s form no number: no digit, or two points or more
Unparseable(s) ==
    \/ KeepChars(s, Digits) = ""
    \/ Len(KeepChars(s, {"."})) >= 2

\* floats are held in hundredths: the strings drawn have two decimals at most
AmountStrings ==
    {s \in StringsOver(AmountChars, MaxAmountLen) :
        LET clean_str == KeepChars(s, Digits \cup {"."})
        IN Unparseable(s) \/ PointAt(clean_str, 1) = 0
           \/ Len(clean_str) - PointAt(clean_str, 1) <= 2}

InitAmount ==
    /\ pc = "amount"
    /\ text \in AmountStrings
    /\ fields = EmptyDict
    /\ missing = <<>>
    /\ route = ""
    /\ reasoning = ""
    /\ result = None
    /\ status = "success"
    /\ validation = EmptyDict
    /\ FirstCall

\* result = _parse_amount(text)
ParseAmount ==
    /\ pc = "amount"
    /\ result' = _parse_amount(text)
    /\ pc' = "parsed"
    /\ UNCHANGED <<text, fields, missing, route, reasoning, status, validation>>
    /\ UNCHANGED agent

NextAmount == ParseAmount

SpecAmount == InitAmount /\ [][NextAmount]_vars

\* C12: _parse_amount is total: for every string it returns a number that is not
\* negative, and 0.0 when the string has no digit or its digits and points form no
\* number (two points, say); it never raises.
C12_ParseAmountTotal ==
    pc = "parsed"
    => /\ result.k = "num"
       /\ result.v >= 0
       /\ (Unparseable(text) => result = Num(0))

C12_Witness == pc = "parsed" /\ text = "5.." /\ result = Num(0)

-----------------------------------------------------------------------------
(* Further properties of the routing engine *)

\* estimated_damage is absent, zero or negative
NoPositiveDamage(d) == "estimated_damage" \in DOMAIN d => d["estimated_damage"].v <= 0

NoDamageFragment == "Damage amount not specified or could not be extracted"

\* C13 as stated: when no earlier rule fires and there is no positive damage
\* amount, determine_route returns Manual Review and its reasoning is "damage
\* amount not specified or could not be extracted" (letter case aside).
C13_NoDamageReasoningIs ==
    pc = "done" /\ NoEarlierRule /\ NoPositiveDamage(fields)
    => /\ route = "Manual Review"
       /\ reasoning \in {NoDamageFragment,
                         "damage amount not specified or could not be extracted"}

\* C13 as amended: when no earlier rule fires and there is no positive damage
\* amount, determine_route returns Manual Review and its reasoning begins with
\* "Damage amount not specified or could not be extracted"; whatever follows is
\* joined to it with ". " and is made of additional-factor fragments.
C13_NoDamageReasoningBegins ==
    pc = "done" /\ NoEarlierRule /\ NoPositiveDamage(fields)
    => /\ route = "Manual Review"
       /\ StartsAt(reasoning, 1, NoDamageFragment)
       /\ \/ reasoning = NoDamageFragment
          \/ /\ StartsAt(reasoning, Len(NoDamageFragment) + 1, ". ")
             /\ \E f \in {"Multiple vehicles involved", "Hit-and-run incident",
                          "Commercial vehicle involved", "Reference to previous claims"} :
                    StartsAt(reasoning, Len(NoDamageFragment) + 3, f)

C13_Witness ==
    /\ pc = "done"
    /\ NoEarlierRule
    /\ "estimated_damage" \in DOMAIN fields
    /\ fields["estimated_damage"] = Num(0 - 100)
    /\ route = "Manual Review"
    /\ Len(reasoning) > Len(NoDamageFragment)

-----------------------------------------------------------------------------
(* _normalize_text and extract_all_fields on a text and on its normalized form *)

\* most characters of a drawn text
MaxTextLen == 4

TextChars == {" ", "\n", "\r", "a"}

SampleDocuments ==
    { "Description: foo\n\r\r\nbar baz",
      "Policy:  ABC123\r\nDamage  Estimate: $900\n\n\n\n",
      "Location: 5 Elm St\n\n\nDescription: car hit a pole" }

NormTexts == StringsOver(TextChars, MaxTextLen) \cup SampleDocuments

InitNormalize ==
    /\ pc = "normalize"
    /\ text \in NormTexts
    /\ fields = EmptyDict
    /\ missing = <<>>
    /\ route = ""
    /\ reasoning = ""
    /\ result = None
    /\ status = "success"
    /\ validation = EmptyDict
    /\ FirstCall

\* result = _normalize_text(text)
NormalizeText ==
    /\ pc = "normalize"
    /\ result' = Str(_normalize_text(text))
    /\ pc' = "extract_text"
    /\ UNCHANGED <<text, fields, missing, route, reasoning, status, validation>>
    /\ UNCHANGED agent

\* fields = extract_all_fields(text)
ExtractText ==
    /\ pc = "extract_text"
    /\ fields' = extract_all_fields(text)
    /\ pc' = "extract_normalized"
    /\ UNCHANGED <<text, missing, route, reasoning, result, status, validation>>
    /\ UNCHANGED agent

\* fields = extract_all_fields(result), the text already normalized
ExtractNormalized ==
    /\ pc = "extract_normalized"
    /\ fields' = extract_all_fields(result.v)
    /\ pc' = "renormalize"
    /\ UNCHANGED <<text, missing, route, reasoning, result, status, validation>>
    /\ UNCHANGED agent

\* result = _normalize_text(result)
Renormalize ==
    /\ pc = "renormalize"
    /\ result' = Str(_normalize_text(result.v))
    /\ pc' = "renormalized"
    /\ UNCHANGED <<text, fields, missing, route, reasoning, status, validation>>
    /\ UNCHANGED agent

NextNormalize == NormalizeText \/ ExtractText \/ ExtractNormalized \/ Renormalize

SpecNormalize == InitNormalize /\ [][NextNormalize]_vars

\* C14: normalizing a normalized text changes nothing, and extract_all_fields on
\* the normalized text gives the fields it gives on the text itself.
C14_NormalizeIdempotent ==
    [][/\ pc = "renormalize" => result' = result
       /\ pc = "extract_normalized" => fields' = fields]_vars

-----------------------------------------------------------------------------
(* Scenarios of the whole pipeline *)

\* C15 as stated: for the minimal-information document the missing fields include
\* location, description, estimated_damage and claim_type, and the route is Manual
\* Review.
C15_MinimalInfoMissingClaimType ==
    pc = "done" /\ text = MinimalInfo
    => /\ {"location", "description", "estimated_damage", "claim_type"} \subseteq Elems(missing)
       /\ route = "Manual Review"

\* C15 as amended: for the minimal-information document the missing fields include
\* location, description and estimated_damage but not claim_type, which is inferred
\* as "property_damage"; the route is Manual Review.
C15_MinimalInfoManualReview ==
    pc = "done" /\ text = MinimalInfo
    => /\ {"location", "description", "estimated_damage"} \subseteq Elems(missing)
       /\ "claim_type" \notin Elems(missing)
       /\ fields["claim_type"] = Str("property_damage")
       /\ route = "Manual Review"

C15_Witness ==
    /\ pc = "done"
    /\ text = MinimalInfo
    /\ missing = <<"date_of_loss", "location", "description", "estimated_damage">>
    /\ fields["policy_number"] = Str("ABC123")

-----------------------------------------------------------------------------
(* _clean_text called on its own *)

\* most characters of a drawn raw text
MaxRawLen == 3

RawChars == {" ", "\n", "l", "a", "W"}

\* tests/test_fnol_agent.py: test_text_cleaning
DirtyText == "  Hello   World\n\nThis  is  a  test.  "

RawTexts == StringsOver(RawChars, MaxRawLen) \cup {DirtyText}

InitClean ==
    /\ pc = "clean"
    /\ text \in RawTexts
    /\ fields = EmptyDict
    /\ missing = <<>>
    /\ route = ""
    /\ reasoning = ""
    /\ result = None
    /\ status = "success"
    /\ validation = EmptyDict
    /\ FirstCall

\* result = DocumentLoader._clean_text(text)
CleanText ==
    /\ pc = "clean"
    /\ result' = Str(_clean_text(text))
    /\ pc' = "cleaned"
    /\ UNCHANGED <<text, fields, missing, route, reasoning, status, validation>>
    /\ UNCHANGED agent

NextClean == CleanText

SpecClean == InitClean /\ [][NextClean]_vars

\* the characters of s that are not whitespace, in order
Inked(s) == Concat([i \in 1..Len(s) |-> IF Chr(s, i) \in Space THEN "" ELSE Chr(s, i)])

\* C17: _clean_text leaves the letters of a text as written and touches only its
\* whitespace; the text '  Hello   World\n\nThis  is  a  test.  ' becomes
\* 'Hello World This is a test.'.
C17_CleanTextOnlyWhitespace ==
    pc = "cleaned" =>
        /\ Inked(result.v) = Inked(text)
        /\ text = DirtyText => result = Str("Hello World This is a test.")

\* the cleaned text of the test has a capital I for every l
C17_CleanedDirtyText == pc = "cleaned" /\ text = DirtyText /\ result = Str("HeIIo WorId This is a test.")

-----------------------------------------------------------------------------
(* Properties of process_document, whole *)

\* the texts load_document gives for the files that supply every required field
\* and an estimate of $8,200
CompleteLowDamageTexts == {_clean_text(FastTrackSample), _clean_text(EndToEndDocument)}

\* C16: a document that supplies every required field, an estimate of $8,200, a
\* date of loss and a description with no fraud or injury signal ends with status
\* success and route Fast-track, estimated_damage 8200.0 and the date of loss as
\* an ISO date (2024-02-01).
C16_CompleteDocumentFastTrack ==
    (pc = "done" /\ text \in CompleteLowDamageTexts) =>
        /\ status = "success"
        /\ route = "Fast-track"
        /\ Get(fields, "estimated_damage", None) = Num(820000)
        /\ Get(fields, "date_of_loss", None) = Str("2024-02-01")

\* the validation step and the routing step change neither the fields nor the
\* missing list
FieldsAndMissingKept ==
    pc \in {"validate", "determine_route"} => fields' = fields /\ missing' = missing

\* C18: validation never gates routing: the validation step and the routing step
\* leave the extracted fields and the missing list as they were, and the route and
\* the reasoning of a processed document are those determine_route gives for the
\* fields and the missing list, whatever validation found.
C18_ValidationNeverGates ==
    /\ [][FieldsAndMissingKept]_vars
    /\ [](pc = "done" /\ status = "success" =>
            /\ route = determine_route(fields, missing).route
            /\ reasoning = determine_route(fields, missing).reasoning)

\* a document with a date of loss in the future, an error of validation, routed
\* to Fast-track all the same
C18_FutureDateFastTrack ==
    /\ pc = "done"
    /\ validation # EmptyDict
    /\ validation.errors # <<>>
    /\ route = "Fast-track"

-----------------------------------------------------------------------------
(* Properties of the pattern loop *)

\* the patterns of a field that match with a group that is not empty once trimmed
Yielding(s, field) ==
    {j \in 1..Len(PATTERNS[field]) : GroupValue(s, Search(s, PATTERNS[field][j])) # ""}

\* the coerced group of the first such pattern in declared order, None when no
\* pattern has one
FirstYield(s, field) ==
    IF Yielding(s, field) = {} THEN None
    ELSE _clean_field_value(
             GroupValue(s, Search(s, PATTERNS[field][
                 CHOOSE j \in Yielding(s, field) : \A l \in Yielding(s, field) : j <= l])),
             field)

\* the fields of the catalog whose key the post-processing never writes
LoopOnlyFields == {FIELDS[i] : i \in 1..Len(FIELDS)} \ {"estimated_damage", "estimate_amount"}

\* C20: within one field's pattern list the patterns are tried in declared order
\* and the value is the coerced first non-empty trimmed group of the first pattern
\* that matches with such a group, whatever the later patterns match; a field
\* whose patterns all fail is left absent.
C20_FirstPatternInOrder ==
    /\ \A i \in 1..Len(FIELDS) :
          _extract_with_patterns(_normalize_text(text), PATTERNS[FIELDS[i]], FIELDS[i])
              = FirstYield(_normalize_text(text), FIELDS[i])
    /\ pc # "extract" =>
          /\ \A i \in 1..Len(FIELDS) :
                Truthy(FirstYield(_normalize_text(text), FIELDS[i])) =>
                    /\ FIELDS[i] \in DOMAIN fields
                    /\ fields[FIELDS[i]] = FirstYield(_normalize_text(text), FIELDS[i])
          /\ \A field \in LoopOnlyFields :
                Yielding(_normalize_text(text), field) = {} => field \notin DOMAIN fields

\* a field with two patterns that match with different groups, set from the first
C20_TwoPatternsMatch ==
    /\ pc = "done"
    /\ \E i \in 1..Len(FIELDS) :
          /\ FIELDS[i] \in DOMAIN fields
          /\ \E j \in Yielding(_normalize_text(text), FIELDS[i]) :
                _clean_field_value(
                    GroupValue(_normalize_text(text),
                               Search(_normalize_text(text), PATTERNS[FIELDS[i]][j])),
                    FIELDS[i]) # fields[FIELDS[i]]

-----------------------------------------------------------------------------
(* extract_all_fields on a text that is one description line, or no description at
   all; the steps are those of SpecExtract *)

\* words of the six keyword groups, and one word of none
DescriptionWords == {"hurt", "stolen", "smoke", "flood", "keyed", "crash", "sign"}

\* a description of one word or of two
WordDescriptions ==
    DescriptionWords \cup {v \o " " \o w : v \in DescriptionWords, w \in DescriptionWords}

ClaimTypeDocuments ==
    {"Description: " \o description : description \in WordDescriptions}
        \cup {"", "Policy: ABC123"}

InitClaimType ==
    /\ pc = "extract"
    /\ text \in ClaimTypeDocuments
    /\ fields = EmptyDict
    /\ missing = <<>>
    /\ route = ""
    /\ reasoning = ""
    /\ result = None
    /\ status = "success"
    /\ validation = EmptyDict
    /\ FirstCall

NextClaimType == ExtractAllFields \/ IdentifyMissing \/ DetermineRoute

SpecClaimType == InitClaimType /\ [][NextClaimType]_vars

\* the categories in the order their keyword groups are tested, each with a
\* keyword of its group
CATEGORY_ORDER ==
    << <<"injury", "hurt">>, <<"theft", "stolen">>, <<"fire", "smoke">>,
       <<"water_damage", "flood">>, <<"vandalism", "keyed">>,
       <<"vehicle_damage", "crash">> >>

\* the categories that have their keyword in the description
Matching(description) ==
    {i \in 1..Len(CATEGORY_ORDER) : Contains(StrLower(description), CATEGORY_ORDER[i][2])}

\* the category of the first group with its keyword in the description, the
\* default when there is none
FirstCategory(description) ==
    IF Matching(description) = {} THEN "property_damage"
    ELSE CATEGORY_ORDER[CHOOSE i \in Matching(description) :
                            \A j \in Matching(description) : i <= j][1]

\* C21: after extract_all_fields claim_type is always present and is the category
\* of the first keyword group, in the order injury, theft, fire, water damage,
\* vandalism, vehicle damage, with a keyword in the lower-cased description;
\* property_damage when no group matches or there is no description.
C21_ClaimTypeFirstGroup ==
    pc # "extract" =>
        /\ "claim_type" \in DOMAIN fields
        /\ fields["claim_type"] = Str(FirstCategory(Get(fields, "description", Str("")).v))

\* a description with keywords of two groups, typed by the earlier group though
\* its keyword comes second
C21_LaterWordEarlierGroup ==
    /\ pc = "done"
    /\ "description" \in DOMAIN fields
    /\ fields["description"] = Str("crash stolen")
    /\ fields["claim_type"] = Str("theft")

-----------------------------------------------------------------------------
(* process_document from step 2 on, for texts as load_document leaves them: one
   line, words one space apart *)

\* most parts of a loaded text
MaxParts == 2

TextParts ==
    { "ACORD YEAR 1999",
      "VEHICLE INFORMATION YEAR 2020 MAKE Ford MODEL F150 DESCRIBE DAMAGE",
      "POLICY NUMBER AB-12",
      "Description: crash",
      "Phone: 555-123-4567",
      "ESTIMATE AMOUNT: $500" }

RECURSIVE PartSeqs(_)
PartSeqs(n) ==
    IF n = 0 THEN {<<>>}
    ELSE PartSeqs(n - 1)
         \cup {Append(q, part) : q \in {r \in PartSeqs(n - 1) : Len(r) = n - 1},
                                 part \in TextParts}

\* the texts that _clean_text leaves as they are
LoadedTexts == {t \in {Join(" ", q) : q \in PartSeqs(MaxParts)} : t # "" /\ _clean_text(t) = t}

InitMerge ==
    /\ pc = "extract_fields"
    /\ text \in LoadedTexts
    /\ fields = EmptyDict
    /\ missing = <<>>
    /\ route = ""
    /\ reasoning = ""
    /\ result = None
    /\ status = "success"
    /\ validation = EmptyDict
    /\ FirstCall

NextMerge ==
    \/ ExtractFieldsByForm
    \/ IdentifyMissingFields
    \/ ValidateExtractedData
    \/ DetermineRouting

SpecMerge == InitMerge /\ [][NextMerge]_vars

\* what the pattern loop alone sets for a text: the loop of extract_acord_fields
\* for an ACORD form, of extract_all_fields for any other text
PatternFields(s) ==
    IF IsAcordForm(s)
    THEN ExtractAcordPatterns(_clean_acord_text(s), ACORD_FIELDS, EmptyDict)
    ELSE ExtractFields(_normalize_text(s), FIELDS, EmptyDict)

\* C22: merging the substructure fields (the vehicle block, the contact phone and
\* email, the ACORD table scan) never changes a key that pattern extraction had
\* set; it only adds keys that were absent.
C22_MergeKeepsPatternValues ==
    pc # "extract_fields" =>
        \A key \in DOMAIN PatternFields(text) :
            key \in DOMAIN fields /\ fields[key] = PatternFields(text)[key]

-----------------------------------------------------------------------------
(* Properties of the two normalizers *)

\* no carriage return, no three newlines in a row, no white space at either end,
\* and no more than most spaces or tabs in a row
Normalized(s, most) ==
    /\ \A i \in 1..Len(s) : Chr(s, i) # "\r"
    /\ \A i \in 1..(Len(s) - 2) : ~StartsAt(s, i, "\n\n\n")
    /\ Strip(s) = s
    /\ \A i \in 1..(Len(s) - most) :
          \E j \in i..(i + most) : Chr(s, j) \notin {" ", "\t"}

\* C23: for every input the output of _normalize_text and of _clean_acord_text has
\* no carriage return, no run of three or more newlines, no leading or trailing
\* whitespace, and no run of horizontal whitespace longer than one space
\* (_normalize_text) or two spaces (_clean_acord_text).
C23_NormalizedOutput ==
    pc = "extract_text" =>
        /\ Normalized(result.v, 1)
        /\ Normalized(_clean_acord_text(text), 2)

-----------------------------------------------------------------------------
(* Properties of the reasoning *)

FACTOR_FRAGMENTS ==
    {"Multiple vehicles involved", "Hit-and-run incident", "Commercial vehicle involved",
     "Reference to previous claims"}

\* a description that matches no factor and no fraud keyword
PlainDescription == Str("Minor scratch")

\* the places of a text where a fragment begins
Occurrences(s, fragment) == Cardinality({i \in 1..Len(s) : StartsAt(s, i, fragment)})

\* C24: additional-factor fragments appear in the reasoning only when the
\* damage-threshold rule decided the route, never with the completeness, fraud or
\* injury rule; each matching factor appends exactly one fragment after the damage
\* fragment, and the route is the one the same fields get with a description that
\* matches no factor.
C24_FactorsOnlyAfterDamageRule ==
    pc = "done" =>
        /\ ~NoEarlierRule => \A f \in FACTOR_FRAGMENTS : ~Contains(reasoning, f)
        /\ NoEarlierRule =>
              /\ \A f \in FACTOR_FRAGMENTS :
                    /\ Occurrences(reasoning, f) =
                          (IF f \in Elems(_check_additional_factors(fields)) THEN 1 ELSE 0)
                    /\ Occurrences(reasoning, ". " \o f) = Occurrences(reasoning, f)
              /\ route = determine_route(Put(fields, "description", PlainDescription),
                                         missing).route

\* a claim below the threshold with all four factors in its description
C24_FourFactorsFastTrack ==
    /\ pc = "done"
    /\ NoEarlierRule
    /\ route = "Fast-track"
    /\ \A f \in FACTOR_FRAGMENTS : Contains(reasoning, ". " \o f)

\* the places in a configured list of the keywords that occur in the description
Matched(keywords, description) ==
    {n \in 1..Len(keywords) : Contains(StrLower(description), keywords[n])}

\* the keywords at the least places of a set of places, at most most of them, in
\* the order of the list
RECURSIVE FirstMatched(_, _, _)
FirstMatched(keywords, places, most) ==
    IF places = {} \/ most = 0 THEN <<>>
    ELSE <<keywords[CHOOSE n \in places : \A l \in places : n <= l]>>
         \o FirstMatched(keywords,
                         places \ {CHOOSE n \in places : \A l \in places : n <= l},
                         most - 1)

\* the keywords a reasoning names
Named(keywords, description) ==
    Join(", ", FirstMatched(keywords, Matched(keywords, description), 3))

\* C25: when the fraud rule or the injury rule decides the route the reasoning
\* names at most three keywords, the first matched ones in the order of the
\* configured list; the injury rule uses the generic fragment 'Injury claim type
\* identified' when no injury keyword occurs in the description.
C25_FirstThreeKeywordsInListOrder ==
    (pc = "done" /\ missing = <<>>) =>
        /\ route = "Investigation Flag" =>
              reasoning = "Fraud indicators detected: "
                              \o Named(FRAUD_KEYWORDS, DescriptionOf(fields))
        /\ route = "Specialist Queue" =>
              reasoning =
                  IF Matched(INJURY_KEYWORDS, DescriptionOf(fields)) = {}
                  THEN "Injury claim type identified"
                  ELSE "Injury claim with indicators: "
                           \o Named(INJURY_KEYWORDS, DescriptionOf(fields))

\* an injury description with four keywords: three are named, in list order, and
\* 'whiplash', second in the description, is left out
C25_ThreeOfFourNamed ==
    /\ pc = "done"
    /\ reasoning = "Injury claim with indicators: injury, hurt, pain"
    /\ Cardinality(Matched(INJURY_KEYWORDS, DescriptionOf(fields))) = 4

-----------------------------------------------------------------------------
(* process_document from step 3 on, for any extracted fields: the missing fields,
   the validation and the route *)

\* dates of loss: days before, on and after the days of Todays, with one and two
\* digits, and strings strptime rejects
LossDates ==
    { "2024-01-15", "2024-01-16", "2024-3-1", "2024-06-30", "2024-07-01",
      "2024-02-30", "Last week", "" }

ValidationValues ==
    [estimated_damage |-> {Num(HIGH_DAMAGE - 1), Num(HIGH_DAMAGE), Num(HIGH_DAMAGE + 1), None},
     date_of_loss |-> {Str(date) : date \in LossDates},
     description |-> {Str(""), Str("Dent here"), Str("Dent there"), Str("Neck INJURY and pain"),
                      Str("Back pain after crash")},
     claim_type |-> {Str("injury"), Str("theft")}]

ValidationInputs ==
    Dicts(<<"estimated_damage", "date_of_loss", "description", "claim_type">>, ValidationValues)

InitValidate ==
    /\ pc = "identify_missing"
    /\ text = ""
    /\ fields \in ValidationInputs
    /\ missing = <<>>
    /\ route = ""
    /\ reasoning = ""
    /\ result = None
    /\ status = "success"
    /\ validation = EmptyDict
    /\ FirstCall

NextValidate ==
    \/ IdentifyMissingFields
    \/ ValidateExtractedData
    \/ DetermineRouting

SpecValidate == InitValidate /\ [][NextValidate]_vars

\* the day a date of loss parses to, as the number yyyymmdd; 0 for a string that
\* datetime.strptime(date_str, '%Y-%m-%d') rejects
ParsedDay ==
    [date \in LossDates |->
        CASE date = "2024-01-15" -> 20240115
          [] date = "2024-01-16" -> 20240116
          [] date = "2024-3-1" -> 20240301
          [] date = "2024-06-30" -> 20240630
          [] date = "2024-07-01" -> 20240701
          [] OTHER -> 0]

\* the days of Todays, as numbers
NowDays == {20240115, 20240630}

LossDay == IF "date_of_loss" \in DOMAIN fields THEN ParsedDay[fields["date_of_loss"].v] ELSE 0

Validated == pc \in {"determine_route", "done"} /\ status = "success"

HasWarning(prefix) ==
    \E i \in 1..Len(validation.warnings) : StartsAt(validation.warnings[i], 1, prefix)

\* C26: validate_extracted_data adds a warning exactly when estimated_damage
\* exceeds 1,000,000, an error exactly when date_of_loss parses as an ISO date
\* strictly after the current time, a warning exactly when the description is
\* shorter than 10 characters (an absent one has length 0), and an inconsistency
\* exactly when claim_type is injury and the description, in lower case, lacks
\* 'injury'; a date_of_loss that does not parse adds nothing and raises nothing.
C26_ValidationFindings ==
    /\ Validated =>
          /\ HasWarning("Unusually high damage amount")
                <=> Get(fields, "estimated_damage", Num(0)).v > 1000000 * 100
          /\ HasWarning("Description is very short")
                <=> Len(DescriptionOf(fields)) < 10
          /\ Len(validation.warnings) <= 2
          /\ validation.errors # <<>> => \E now \in NowDays : LossDay > now
          /\ (\A now \in NowDays : LossDay > now) => validation.errors # <<>>
          /\ Len(validation.errors) <= 1
          /\ validation.inconsistencies # <<>>
                <=> /\ Get(fields, "claim_type", None) = Str("injury")
                    /\ ~Contains(StrLower(DescriptionOf(fields)), "injury")
    /\ (/\ pc \in {"determine_route", "done"}
        /\ LossDay = 0
        /\ Get(fields, "estimated_damage", Num(0)) # None) =>
          status = "success" /\ validation.errors = <<>>

\* a record with an amount over the limit, a date after every today, a short
\* description and the claim type injury: four findings
C26_FourFindings ==
    /\ Validated
    /\ Len(validation.warnings) = 2
    /\ validation.errors = <<"Date of loss is in the future: 2024-07-01">>
    /\ validation.inconsistencies # <<>>

-----------------------------------------------------------------------------
(* _clean_description called with descriptions about as long as its two limits *)

\* unit written count times over
RECURSIVE Repeated(_, _)
Repeated(unit, count) ==
    IF count = 0 THEN ""
    ELSE IF count % 2 = 1
    THEN unit \o Repeated(unit \o unit, count \div 2)
    ELSE Repeated(unit \o unit, count \div 2)

\* the first length characters of unit written over and over
Filled(unit, length) == SubSeq(Repeated(unit, length), 1, length)

\* most characters a drawn description has over DESC_LIMIT
MaxOver == 2

\* short descriptions, and descriptions about as long as the two limits
DescLengths ==
    (0..20) \cup {DESC_KEEP, DESC_KEEP + 1, DESC_LIMIT}
        \cup ((DESC_LIMIT + 1)..(DESC_LIMIT + MaxOver))

\* words without a sentence end, and sentences
DescUnits ==
    { "a",
      "dent ",
      "The car in front braked hard and my car hit its rear bumper at low speed. ",
      "It rained all day! Why was the road not closed when the water rose so fast? " }

\* a sentence longer than DESC_KEEP
LongSentence == Filled("scratch ", DESC_KEEP + 4) \o ". "

RawDescriptions ==
    {Filled(unit, length) : unit \in DescUnits, length \in DescLengths}
        \cup {LongSentence \o Filled("Car hit a pole. ", length) : length \in {40, DESC_LIMIT}}

InitDescription ==
    /\ pc = "clean_description"
    /\ text \in RawDescriptions
    /\ fields = EmptyDict
    /\ missing = <<>>
    /\ route = ""
    /\ reasoning = ""
    /\ result = None
    /\ status = "success"
    /\ validation = EmptyDict
    /\ FirstCall

\* result = _clean_description(text)
CleanDescription ==
    /\ pc = "clean_description"
    /\ result' = Str(_clean_description(text))
    /\ pc' = "described"
    /\ UNCHANGED <<text, fields, missing, route, reasoning, status, validation>>
    /\ UNCHANGED agent

NextDescription == CleanDescription

SpecDescription == InitDescription /\ [][NextDescription]_vars

\* the description ends with the truncation marker after DESC_KEEP characters
HardTruncated(s) == Len(s) = DESC_KEEP + 3 /\ SubSeq(s, DESC_KEEP + 1, DESC_KEEP + 3) = "..."

\* C27 as stated: the cleaned description has at most 1500 characters (plus the
\* truncation marker in the hard-truncate case), any longer input being cut.
C27_AtMostKeep ==
    pc = "described" => Len(result.v) <= DESC_KEEP \/ HardTruncated(result.v)

\* the first sentence of the tidied description is shorter than DESC_KEEP
FirstSentenceFits(desc) ==
    \E i \in 1..DESC_KEEP : i <= Len(desc) /\ Chr(desc, i) \in SentenceEnd

\* a tidied description of at most DESC_LIMIT characters is kept, a longer one is
\* cut to whole sentences or to DESC_KEEP characters and the marker
CutOverLimit(tidied, cleaned) ==
    IF Len(tidied) <= DESC_LIMIT THEN cleaned = tidied
    ELSE IF FirstSentenceFits(tidied)
    THEN /\ Len(cleaned) <= DESC_KEEP
         /\ cleaned # ""
         /\ Chr(cleaned, Len(cleaned)) = "."
         /\ \A i \in 1..Len(cleaned) :
               Chr(cleaned, i) = "." \/ Chr(cleaned, i) \notin SentenceEnd
    ELSE cleaned = SubSeq(tidied, 1, DESC_KEEP) \o "..."

\* C27 as amended: a description that, tidied, has at most 2000 characters is kept
\* whole, those of 1501 to 2000 characters included; a longer one is cut to at
\* most 1500 characters, to whole sentences, each ended by one '.', when its first
\* sentence is shorter than 1500 characters, and to its first 1500 characters and
\* the marker '...' otherwise.
C27_CutOverLimitOnly == pc = "described" => CutOverLimit(Tidied(text), result.v)

\* a description of more than 1500 characters and no more than 2000, kept whole
C27_KeptOverKeep ==
    /\ pc = "described"
    /\ Len(result.v) > DESC_KEEP + 3
    /\ result.v = text



-----------------------------------------------------------------------------
(* FNOLAgent.process_batch, src/src/main.py: one agent, a list of paths, a call of
   process_document for each in turn and the list of what the calls returned *)

\* most paths of a batch
MaxPaths == 2

\* the files on disk, each path with what open(file_path).read() gives
DISK ==
    [p \in {"in/claim.txt", "in/MINIMAL.TXT", "blank.txt"} |->
        CASE p = "in/claim.txt" -> EndToEndDocument
          [] p = "in/MINIMAL.TXT" -> Lines(<<"ACORD FORM", "DATE OF LOSS: 02/01/2024">>)
          [] OTHER -> "   \n"]

\* the paths a batch is drawn from: the files on disk, a path of no file, a path of
\* another format, and the empty path
BatchPaths == DOMAIN DISK \cup {"gone.txt", "notes.doc", ""}

RECURSIVE PathSeqs(_)
PathSeqs(n) ==
    IF n = 0 THEN {<<>>}
    ELSE PathSeqs(n - 1)
         \cup {Append(q, p) : q \in {r \in PathSeqs(n - 1) : Len(r) = n - 1},
                              p \in BatchPaths}

\* results = [] in process_batch, on an agent that __init__ has just made
InitAgent ==
    /\ pc = "next_path"
    /\ text = ""
    /\ fields = EmptyDict
    /\ missing = <<>>
    /\ route = ""
    /\ reasoning = ""
    /\ result = None
    /\ status = "success"
    /\ validation = EmptyDict
    /\ stats = NewStats
    /\ calls = 0
    /\ paths \in PathSeqs(MaxPaths)
    /\ batch_results = <<>>

\* for file_path in file_paths: process_document(file_path), up to its try; text is
\* what the file at the path holds, nothing when there is no such file
CallProcessDocument ==
    /\ pc = "next_path"
    /\ calls < Len(paths)
    /\ calls' = calls + 1
    /\ result' = NewResult(paths[calls + 1])
    /\ status' = "success"
    /\ text' = Get(DISK, paths[calls + 1], "")
    /\ fields' = EmptyDict
    /\ missing' = <<>>
    /\ validation' = EmptyDict
    /\ route' = ""
    /\ reasoning' = ""
    /\ pc' = "load"
    /\ UNCHANGED <<stats, paths, batch_results>>

\* return result, and results.append(result) in process_batch
AppendResult ==
    /\ pc = "done"
    /\ batch_results' = Append(batch_results, result)
    /\ pc' = "next_path"
    /\ UNCHANGED <<text, fields, missing, route, reasoning, result, status, validation,
                   stats, calls, paths>>

NextAgent ==
    \/ CallProcessDocument
    \/ LoadDocument
    \/ ExtractFieldsByForm
    \/ IdentifyMissingFields
    \/ ValidateExtractedData
    \/ DetermineRouting
    \/ AppendResult

SpecAgent == InitAgent /\ [][NextAgent]_vars

-----------------------------------------------------------------------------
(* Properties of the statistics *)

\* the sum of the counts of the routes
RECURSIVE RouteTotal(_)
RouteTotal(routes) ==
    IF DOMAIN routes = {} THEN 0
    ELSE LET r == CHOOSE x \in DOMAIN routes : TRUE
         IN routes[r] + RouteTotal([x \in DOMAIN routes \ {r} |-> routes[x]])

\* the call that was made last has ended
CallEnded == pc \in {"done", "next_path"}

\* C28: after any sequence of process_document calls on one agent the counts of
\* the routes add up to stats['processed'], and stats['processed'] + stats['errors']
\* is the number of calls made; a call that is still running has counted nothing,
\* and a call that failed has counted no route.
StatsAddUp ==
    /\ RouteTotal(stats.routes) = stats.processed
    /\ stats.processed + stats.errors = IF CallEnded THEN calls ELSE calls - 1

\* the step that ends a call counts an error and no route when the call failed,
\* a processed document when it did not, and no other step counts
OneCounterPerCall ==
    IF pc' = "done" /\ pc # "done"
    THEN IF status' = "error"
         THEN /\ stats'.errors = stats.errors + 1
              /\ stats'.processed = stats.processed
              /\ stats'.routes = stats.routes
         ELSE /\ stats'.processed = stats.processed + 1
              /\ stats'.errors = stats.errors
    ELSE stats' = stats

-----------------------------------------------------------------------------
(* Properties of the results *)

\* load_document raises for the path, or gives no text for it
LoadFails(file_path) ==
    \/ file_path = ""
    \/ ~EndsWith(StrLower(file_path), ".txt")
    \/ _clean_text(Get(DISK, file_path, "")) = ""

\* the result of a call that failed
ErrorResult(res) ==
    /\ res.recommendedRoute = "Error - Manual Review"
    /\ res.recommendedRoute \notin ROUTES
    /\ Len(res.reasoning) >= 16
    /\ SubSeq(res.reasoning, 1, 16) = "Processing error"
    /\ res.extractedFields = EmptyDict
    /\ res.missingFields = <<>>

-----------------------------------------------------------------------------
(* Properties of the route of a record whose missing list identify_missing_fields
   computed *)

\* C30: when the missing list given to determine_route is the one that
\* identify_missing_fields computed from the same extracted fields, no decision
\* says that the damage amount is not specified: every Manual Review decision is
\* the one of the completeness rule, and every decision with an empty missing list
\* has a positive estimated_damage.
C30_NoDamageBranchUnreachable ==
    pc = "done" =>
        /\ ~Contains(reasoning, NoDamageFragment)
        /\ route = "Manual Review" =>
              /\ missing # <<>>
              /\ reasoning = CompletenessGate(missing).reasoning
        /\ missing = <<>> =>
              /\ "estimated_damage" \in DOMAIN fields
              /\ fields["estimated_damage"].k = "num"
              /\ fields["estimated_damage"].v > 0

\* a record with every required field, whose estimated_damage is 0, was routed
C30_ZeroDamageIsMissing ==
    /\ pc = "done"
    /\ Elems(REQUIRED_FIELDS) \subseteq DOMAIN fields
    /\ fields["estimated_damage"] = Num(0)
    /\ missing = <<"estimated_damage">>
    /\ route = "Manual Review"
====
